---------------------------- MODULE Spec2Model ----------------------------
(***************************************************************************)
(* The streaming relay of services/core-api (stream_chat_response), the    *)
(* streaming decode of the Ollama client (OllamaClient.stream_chat), the   *)
(* thread and message endpoints with the conversation store behind them    *)
(* (ChatService), and the non-streaming completion and the availability    *)
(* check of the two Ollama clients, the flattened prompt of LLMClient and  *)
(* the relay of backend/main.py.                                           *)
(*                                                                         *)
(* Specifications:                                                         *)
(*   Spec          streaming turns, one at a time                          *)
(*   FairSpec      Spec with the relay's own steps scheduled fairly        *)
(*   SpecConc      two streaming turns on different threads, interleaved   *)
(*   SpecSame      two streaming turns on one thread, interleaved          *)
(*   SpecCancel    Spec with callers that disconnect mid-stream            *)
(*   SpecApi       the thread and message endpoints, overlapping           *)
(*   SpecStore     streaming turns with the endpoints running beside them  *)
(*   SpecTxn       create-message requests, statement by statement         *)
(*   SpecComplete  one non-streaming completion call                       *)
(*   SpecAvail     one availability check (check_model_available)          *)
(*   SpecDecode    one streaming decode over a response body               *)
(*   SpecPrompt    one flattened prompt (LLMClient._ollama_chat)           *)
(*   SpecLegacy    one turn of the relay of backend/main.py                *)
(*                                                                         *)
(* Text is a sequence of one-character strings, so that concatenation is   *)
(* \o and the empty text is << >>.  A message's metadata (a JSON object)   *)
(* is a sequence of <<key, value>> pairs in insertion order.               *)
(***************************************************************************)
EXTENDS Integers, Sequences, FiniteSets, TLC

(* ------------------------------ bounds -------------------------------- *)

\* Streaming requests the model serves in one behaviour.
MaxRequests == 1
\* Lines the backend transport delivers at most in one streaming response.
MaxLines == 2
\* Thread and message API requests the model serves in one behaviour.
MaxApiRequests == 2
\* Length of the content of a non-streaming backend response, at most.
MaxTextLen == 3
\* Entries of the model list the registry answers with, at most.
MaxModels == 2
\* Streaming requests the model serves in one behaviour when it serves
\* them concurrently.
MaxConcurrent == 2

\* Request slots; each slot serves one streaming turn at a time.
Turns == {1}
\* The request slots of the specification that serves turns concurrently.
ConcurrentTurns == {1, 2}
\* Request slots of the thread and message API; each serves one request at
\* a time, and the two may overlap.
Apis == {1, 2}
\* Ticks between the two clock reads of one create_chat_message (the
\* explicit utcnow() for updated_at, the column default for created_at):
\* the same reading, or a later one.
ClockGaps == {0, 1}

(* ------------------------------- data --------------------------------- *)

Owners == {"u1", "u2"}
ThreadIds == {"t1"}
\* (owner, human-readable thread id): models.py uq_user_thread
ThreadKeys == Owners \X ThreadIds

\* Contents a caller sends as its new user turn.
UserContents == {<<"q">>}
\* Contents a backend frame carries in message.content.
FrameContents == {<< >>, <<"4">>, <<".">>}

\* Titles a caller gives a thread; the title a thread has when the model starts.
Titles == {"T1"}
InitTitle == "T0"
NoTitle == "none"
\* Role strings a create-message request carries.
RequestedRoles == {"user", "assistant", "system"}
\* Contents a create-message request carries.
ApiContents == {<<"m">>}
\* OllamaClient.model: the model the relay's client asks for.
ModelName == "llama2"

EmptyMeta == << >>
InterruptedMeta == << <<"error", "Streaming interrupted">>, <<"partial", TRUE>> >>

\* A stored message row.
Row(id, role, content, tCre) ==
  [id |-> id, role |-> role, content |-> content,
   metadata |-> EmptyMeta, created_at |-> tCre]

\* When the model starts, thread t1 of u2 holds one exchange, and thread t1
\* of u1 does not exist, is new, or holds one exchange.
OtherHistory ==
  << Row(1, "user", <<"X">>, 1), Row(2, "assistant", <<"Y">>, 2) >>
InitHistories ==
  { << >>,
    << Row(3, "user", <<"H">>, 3), Row(4, "assistant", <<"O">>, 4) >> }

NoThread == [exists |-> FALSE, messages |-> << >>, updated_at |-> 0]

\* The frames (lines) of a streaming response body:
\*   empty      an empty line
\*   badjson    a line json.loads rejects
\*   nonobject  valid JSON that is not an object (a number, a list, null)
\*   nomsg      an object without message.content
\*   msg        an object with message.content = content
Frames ==
  { [kind |-> "empty", content |-> << >>, done |-> FALSE],
    [kind |-> "badjson", content |-> << >>, done |-> FALSE],
    [kind |-> "nonobject", content |-> << >>, done |-> FALSE] }
  \cup [kind : {"nomsg"}, content : {<< >>}, done : BOOLEAN]
  \cup [kind : {"msg"}, content : FrameContents, done : BOOLEAN]

(* ------------------------------ state --------------------------------- *)

VARIABLES
  threads,      \* store: ThreadKeys -> [exists, messages, updated_at]
  now,          \* the clock datetime.utcnow reads; it advances by at
                \* least one tick between two writes of the store
  nextId,       \* the next message primary key
  served,       \* streaming requests received so far
  pc,           \* per turn: position in stream_chat_response
  req,          \* per turn: [key, content] of the request
  history,      \* per turn: thread.messages as loaded at the start
  llmMessages,  \* per turn: the messages list sent to the backend
  full_response,            \* per turn: the accumulator
  assistant_message_saved,  \* per turn: the saved flag
  events,       \* per turn: the SSE records yielded so far
  httpStatus,   \* per turn: status of the HTTP response (0: none yet)
  lines,        \* per turn: lines read from the transport so far
  received,     \* per turn: the fragments stream_chat yielded so far
  frameDone,    \* per turn: the frame that yielded the last fragment had done
  streamEnd,    \* per turn: "none" | "normal" | "raised"
  opens,        \* per turn: streaming requests sent to the backend
  userMsgId,    \* per turn: id of user_message (0: none)
  asstMsgId,    \* per turn: id of the assistant message written (0: none)
  saveResult,   \* per turn: outcome of the assistant write attempt
  chunk,        \* per turn: the fragment being handled by the loop body
  error,        \* per turn: the exception caught by generate_response
  sessions,     \* per turn: the store sessions used so far, in order:
                \* [session, op, streaming], streaming = generate_response
                \* had started when the session was used
  threadRows,   \* store: ThreadKeys -> number of chat_threads rows
  titles,       \* store: ThreadKeys -> title of the thread
  apiServed,    \* thread and message API requests received so far
  apc,          \* per API slot: position in the handler
  areq,         \* per API slot: the last request, [op, key, title, role, content]
  astatus,      \* per API slot: status of the response to it (0: none yet)
  completion,   \* the non-streaming completion call: [pc, impl, content, result]
  decode,       \* one streaming decode: [pc, frames, pos, fragments, end]
  avail,        \* one availability check: [pc, impl, provider, model, reply, result]
  pending,      \* per API slot: the writes its session has flushed and not
                \* committed: [key, row, updated_at]
  prompt,       \* one flattened prompt: [pc, messages, parts, text]
  legacy        \* one turn of the relay of backend/main.py: [pc, key,
                \* content, full_response, events, lines, end, userMsgId,
                \* asstMsgId]

storeVars == <<threads, now, nextId>>
turnVars == <<pc, req, history, llmMessages, full_response,
              assistant_message_saved, events, httpStatus, lines, received,
              frameDone, streamEnd, opens, userMsgId, asstMsgId, saveResult,
              chunk, error>>
relayVars == <<served, turnVars, sessions>>
sideVars == <<prompt, legacy>>
auxVars == <<decode, avail, pending, sideVars>>
apiVars == <<threadRows, titles, apiServed, apc, areq, astatus, completion,
             auxVars>>
vars == <<threads, now, nextId, served, pc, req, history, llmMessages, full_response,
          assistant_message_saved, events, httpStatus, lines, received,
          frameDone, streamEnd, opens, userMsgId, asstMsgId, saveResult,
          chunk, error, sessions, threadRows, titles, apiServed, apc, areq,
          astatus, completion, decode, avail, pending, prompt, legacy>>

(* --------------------------- pure helpers ----------------------------- *)

\* Concatenation of a sequence of texts, left to right.
RECURSIVE Concat(_)
Concat(ss) == IF ss = << >> THEN << >> ELSE Head(ss) \o Concat(Tail(ss))

\* Insert m into the created_at-sorted sequence ms, after its equals.
RECURSIVE InsertSorted(_, _)
InsertSorted(ms, m) ==
  IF ms = << >> THEN <<m>>
  ELSE IF m.created_at < Head(ms).created_at THEN <<m>> \o ms
  ELSE <<Head(ms)>> \o InsertSorted(Tail(ms), m)

\* relationship(..., order_by="ChatMessage.created_at")
RECURSIVE OrderByCreatedAt(_)
OrderByCreatedAt(ms) ==
  IF ms = << >> THEN << >>
  ELSE InsertSorted(OrderByCreatedAt(SubSeq(ms, 1, Len(ms) - 1)), ms[Len(ms)])

\* Mutant of ErrorMessage: status 404 is reported like any other status.
ErrorMessageGeneric(e) ==
  CASE e \in {"not_found", "api_error"} -> <<"Ollama API error (", "status", "): ", "detail">>
    [] e \in {"connect", "transport"} ->
         <<"Failed to connect to Ollama at ", "base_url", ": ", "detail">>
    [] OTHER -> <<e>>

\* str(e) of the exception generate_response catches, as the pieces of the
\* f-string stream_chat builds: status 404 names the model and tells how to
\* pull it; another status and a transport failure carry their detail.
ErrorMessage(e) ==
  CASE e = "not_found" ->
         <<"Ollama model '", ModelName, "' not found. ",
           "Please pull it first: ollama pull ", ModelName>>
    [] e = "api_error" -> <<"Ollama API error (", "status", "): ", "detail">>
    [] e \in {"connect", "transport"} ->
         <<"Failed to connect to Ollama at ", "base_url", ": ", "detail">>
    [] OTHER -> <<e>>

\* The SSE records generate_response yields (the payload of json.dumps).
FragmentRecord(c) == [content |-> c, done |-> FALSE]
DoneRecord(saved) == [content |-> << >>, done |-> TRUE, saved |-> saved]
ErrorRecord(e) == [error |-> ErrorMessage(e), done |-> TRUE]

IsFragment(r) == DOMAIN r = {"content", "done"} /\ r.done = FALSE
IsDone(r) == DOMAIN r = {"content", "done", "saved"} /\ r.done = TRUE
IsError(r) == DOMAIN r = {"error", "done"} /\ r.done = TRUE
IsTerminal(r) == IsDone(r) \/ IsError(r)

\* Mutant of Accumulate: the relay forwards the fragment and keeps nothing.
AccumulateDiscard(acc, c) == << >>

\* Mutant of Accumulate: full_response = chunk.
AccumulateOverwrite(acc, c) == c

\* full_response += chunk
Accumulate(acc, c) == acc \o c

\* Mutant of AsLlmMessage: every turn of the history is sent as a user turn.
AsLlmMessageRoleLost(m) == [role |-> "user", content |-> m.content]

\* {"role": msg.role, "content": msg.content}
AsLlmMessage(m) == [role |-> m.role, content |-> m.content]

(* ------------------------------ store --------------------------------- *)

\* Mutant of ThreadFound: the thread is looked up by its thread id alone,
\* whoever owns it.
ThreadFoundAnyOwner(th, key) ==
  \E k \in DOMAIN th : k[2] = key[2] /\ th[k].exists

\* ChatService.get_chat_thread: the thread row of key, if any.
ThreadFound(th, key) == th[key].exists

\* Mutant of NewMessage: the created_at default was evaluated once, when
\* the module was imported (default=datetime.utcnow()).
NewMessageStaleClock(id, role, content, metadata, tCre) ==
  [id |-> id, role |-> role, content |-> content,
   metadata |-> metadata, created_at |-> 0]

\* The ChatMessage row create_chat_message builds; created_at is the
\* column default, read from the clock when the row is flushed.
NewMessage(id, role, content, metadata, tCre) ==
  [id |-> id, role |-> role, content |-> content,
   metadata |-> metadata, created_at |-> tCre]

\* Mutant of InsertMessage: the row is added and the thread row is left
\* as it was.
InsertMessageNoTouch(th, key, id, role, content, metadata, tUpd, tCre) ==
  [th EXCEPT ![key] =
     [@ EXCEPT !.messages = Append(@, NewMessage(id, role, content, metadata, tCre))]]

\* Mutant of InsertMessage: the write is an upsert keyed by role; a thread
\* whose latest message has the role of the new one gets it overwritten.
InsertMessageReplacing(th, key, id, role, content, metadata, tUpd, tCre) ==
  LET ms == th[key].messages
      kept == IF ms # << >> /\ ms[Len(ms)].role = role
              THEN SubSeq(ms, 1, Len(ms) - 1) ELSE ms
  IN [th EXCEPT ![key] =
        [@ EXCEPT !.messages = Append(kept, NewMessage(id, role, content, metadata, tCre)),
                  !.updated_at = tUpd]]

\* ChatService.create_chat_message on a thread that exists, committed:
\* the row is added and thread.updated_at is set to the clock read tUpd.
InsertMessage(th, key, id, role, content, metadata, tUpd, tCre) ==
  [th EXCEPT ![key] =
     [@ EXCEPT !.messages = Append(@, NewMessage(id, role, content, metadata, tCre)),
               !.updated_at = tUpd]]

\* thread.messages of a loaded thread: its rows in created_at order.
LoadMessages(th, key) == OrderByCreatedAt(th[key].messages)

(* ----------------------------- sessions ------------------------------- *)

\* The session get_db hands to the handler (Depends(get_db)).
RequestSession == <<"get_db", 0>>

\* Mutant of AcquireSession: the write reuses the request's session.
AcquireSessionShared(log) == RequestSession

\* AsyncSessionLocal(): a session object of its own, not one in use.
AcquireSession(log) == <<"AsyncSessionLocal", Len(log)>>

\* The handler runs a store operation on a session.
UseSession(log, session, op, streaming) ==
  Append(log, [session |-> session, op |-> op, streaming |-> streaming])

(* ------------------------------- Init --------------------------------- *)

InitThread(h) ==
  [exists |-> TRUE, messages |-> h,
   updated_at |-> IF h = << >> THEN 0 ELSE h[Len(h)].created_at]

IdleReq == [key |-> <<"u1", "t1">>, content |-> << >>]
IdleApi == [op |-> "none", key |-> <<"u1", "t1">>, title |-> NoTitle,
            role |-> "none", content |-> << >>]
IdleCompletion == [pc |-> "idle", impl |-> "none", content |-> << >>,
                   result |-> << >>]
IdleDecode == [pc |-> "idle", frames |-> << >>, pos |-> 0,
               fragments |-> << >>, end |-> "none"]
NoReply == [kind |-> "none", entries |-> << >>]
IdleAvail == [pc |-> "idle", impl |-> "none", provider |-> "none",
              model |-> "none", reply |-> NoReply, result |-> "none"]
\* A session that holds no uncommitted write.  updated_at is the value
\* assigned to thread.updated_at in memory, todo the statements the flush
\* has still to emit, row the row the INSERT sent, if it was sent.
NoWrites == [updated_at |-> 0, todo |-> {}, row |-> << >>]
IdlePrompt == [pc |-> "idle", messages |-> << >>, parts |-> << >>,
               text |-> << >>]
IdleLegacy == [pc |-> "idle", key |-> <<"u1", "t1">>, content |-> << >>,
               full_response |-> << >>, events |-> << >>, lines |-> 0,
               end |-> "none", userMsgId |-> 0, asstMsgId |-> 0]

\* The state after start-up, with the request slots T.
InitWith(T) ==
  /\ \E th \in {NoThread} \cup {InitThread(h) : h \in InitHistories} :
       threads = [k \in ThreadKeys |->
                    IF k = <<"u1", "t1">> THEN th ELSE InitThread(OtherHistory)]
  /\ now = 4
  /\ nextId = 5
  /\ served = 0
  /\ pc = [t \in T |-> "idle"]
  /\ req = [t \in T |-> IdleReq]
  /\ history = [t \in T |-> << >>]
  /\ llmMessages = [t \in T |-> << >>]
  /\ full_response = [t \in T |-> << >>]
  /\ assistant_message_saved = [t \in T |-> FALSE]
  /\ events = [t \in T |-> << >>]
  /\ httpStatus = [t \in T |-> 0]
  /\ lines = [t \in T |-> 0]
  /\ received = [t \in T |-> << >>]
  /\ frameDone = [t \in T |-> FALSE]
  /\ streamEnd = [t \in T |-> "none"]
  /\ opens = [t \in T |-> 0]
  /\ userMsgId = [t \in T |-> 0]
  /\ asstMsgId = [t \in T |-> 0]
  /\ saveResult = [t \in T |-> "none"]
  /\ chunk = [t \in T |-> << >>]
  /\ error = [t \in T |-> "none"]
  /\ sessions = [t \in T |-> << >>]
  /\ threadRows = [k \in ThreadKeys |-> IF threads[k].exists THEN 1 ELSE 0]
  /\ titles = [k \in ThreadKeys |-> IF threads[k].exists THEN InitTitle ELSE NoTitle]
  /\ apiServed = 0
  /\ apc = [a \in Apis |-> "idle"]
  /\ areq = [a \in Apis |-> IdleApi]
  /\ astatus = [a \in Apis |-> 0]
  /\ completion = IdleCompletion
  /\ decode = IdleDecode
  /\ avail = IdleAvail
  /\ pending = [a \in Apis |-> NoWrites]
  /\ prompt = IdlePrompt
  /\ legacy = IdleLegacy

Init == InitWith(Turns)

(* ----------------- the relay: stream_chat_response -------------------- *)

\* No other request is being served (the sequential specification).
Quiet == \A u \in Turns : pc[u] = "idle"

\* The slots before t are busy: a request is served by the first free slot.
FirstFree(t) == \A u \in DOMAIN pc : u < t => pc[u] # "idle"

\* Mutant of AfterStream: the done record is yielded without waiting for
\* the assistant write.
AfterStreamDoneFirst(acc) == "sendDone"

\* Where generate_response continues when the fragment loop ends normally:
\* "if full_response:" guards the assistant write.
AfterStream(acc) == IF acc # << >> THEN "saving" ELSE "sendDone"

\* Mutant of AfterRaise: the except branch only reports the error.
AfterRaiseNoSave(acc, saved) == "sendError"

\* Mutant of AfterRaise: the except branch writes whatever was accumulated,
\* also nothing.
AfterRaiseAlwaysSave(acc, saved) == "savingPartial"

\* Where generate_response continues when the try body raises:
\* "if full_response and not assistant_message_saved:" guards the partial write.
AfterRaise(acc, saved) ==
  IF acc # << >> /\ ~saved THEN "savingPartial" ELSE "sendError"

\* Mutant of StartTurn: the handler does not check that the thread exists.
StartTurnNoCheck(t) ==
  /\ pc[t] = "idle"
  /\ served' = served + 1
  /\ \E key \in ThreadKeys, c \in UserContents :
       /\ req' = [req EXCEPT ![t] = [key |-> key, content |-> c]]
       /\ history' = [history EXCEPT ![t] = LoadMessages(threads, key)]
       /\ pc' = [pc EXCEPT ![t] = "loaded"]
  /\ UNCHANGED <<storeVars, llmMessages, full_response, assistant_message_saved,
                 events, httpStatus, lines, received, frameDone, streamEnd,
                 opens, userMsgId, asstMsgId, saveResult, chunk, error>>
  /\ sessions' = [sessions EXCEPT ![t] = UseSession(<< >>, RequestSession, "load", FALSE)]
  /\ UNCHANGED apiVars

\* The request arrives; get_chat_thread(include_messages=True) loads the
\* thread with its history, or the request ends with HTTP 404.
StartTurn(t) ==
  /\ pc[t] = "idle"
  /\ served' = served + 1
  /\ \E key \in ThreadKeys, c \in UserContents :
       /\ req' = [req EXCEPT ![t] = [key |-> key, content |-> c]]
       /\ IF ThreadFound(threads, key)
          THEN /\ history' = [history EXCEPT ![t] = LoadMessages(threads, key)]
               /\ pc' = [pc EXCEPT ![t] = "loaded"]
               /\ UNCHANGED httpStatus
          ELSE /\ httpStatus' = [httpStatus EXCEPT ![t] = 404]
               /\ pc' = [pc EXCEPT ![t] = "rejected"]
               /\ UNCHANGED history
  /\ UNCHANGED <<storeVars, llmMessages, full_response, assistant_message_saved,
                 events, lines, received, frameDone, streamEnd, opens,
                 userMsgId, asstMsgId, saveResult, chunk, error>>
  /\ sessions' = [sessions EXCEPT ![t] = UseSession(<< >>, RequestSession, "load", FALSE)]
  /\ UNCHANGED apiVars

\* Mutant of AppendUserTurn: the user row is flushed but the commit is
\* left to the end of the request, after the response has streamed.
AppendUserTurnNoCommit(t) ==
  /\ pc[t] = "loaded"
  /\ ThreadFound(threads, req[t].key)
  /\ userMsgId' = [userMsgId EXCEPT ![t] = nextId]
  /\ nextId' = nextId + 1
  /\ llmMessages' = [llmMessages EXCEPT ![t] =
       [i \in 1 .. Len(history[t]) |-> AsLlmMessage(history[t][i])]
       \o <<[role |-> "user", content |-> req[t].content]>>]
  /\ httpStatus' = [httpStatus EXCEPT ![t] = 200]
  /\ pc' = [pc EXCEPT ![t] = "responding"]
  /\ UNCHANGED <<threads, now, served, req, history, full_response,
                 assistant_message_saved, events, lines, received, frameDone,
                 streamEnd, opens, asstMsgId, saveResult, chunk, error>>
  /\ sessions' = [sessions EXCEPT ![t] = UseSession(@, RequestSession, "user", FALSE)]
  /\ UNCHANGED apiVars

\* Mutant of AppendUserTurn: the handler does not look at what
\* create_chat_message returned, and goes on when the thread is gone.
AppendUserTurnUnchecked(t) ==
  /\ pc[t] = "loaded"
  /\ IF ~ThreadFound(threads, req[t].key)
     THEN /\ llmMessages' = [llmMessages EXCEPT ![t] =
               [i \in 1 .. Len(history[t]) |-> AsLlmMessage(history[t][i])]
               \o <<[role |-> "user", content |-> req[t].content]>>]
          /\ httpStatus' = [httpStatus EXCEPT ![t] = 200]
          /\ pc' = [pc EXCEPT ![t] = "responding"]
          /\ UNCHANGED <<storeVars, userMsgId>>
     ELSE \E ok \in BOOLEAN, d \in ClockGaps :
            IF ok
            THEN /\ threads' = InsertMessage(threads, req[t].key, nextId, "user",
                                             req[t].content, EmptyMeta,
                                             now + 1, now + 1 + d)
                 /\ now' = now + 1 + d
                 /\ nextId' = nextId + 1
                 /\ userMsgId' = [userMsgId EXCEPT ![t] = nextId]
                 /\ llmMessages' = [llmMessages EXCEPT ![t] =
                      [i \in 1 .. Len(history[t]) |-> AsLlmMessage(history[t][i])]
                      \o <<[role |-> "user", content |-> req[t].content]>>]
                 /\ httpStatus' = [httpStatus EXCEPT ![t] = 200]
                 /\ pc' = [pc EXCEPT ![t] = "responding"]
            ELSE /\ d = 0
                 /\ httpStatus' = [httpStatus EXCEPT ![t] = 500]
                 /\ pc' = [pc EXCEPT ![t] = "rejected"]
                 /\ UNCHANGED <<storeVars, llmMessages, userMsgId>>
  /\ UNCHANGED <<served, req, history, full_response, assistant_message_saved, events,
                 lines, received, frameDone, streamEnd, opens, asstMsgId,
                 saveResult, chunk, error>>
  /\ sessions' = [sessions EXCEPT ![t] = UseSession(@, RequestSession, "user", FALSE)]
  /\ UNCHANGED apiVars

\* create_chat_message(role="user") and db.commit() on the request's
\* session, then the messages list for the backend is built and the
\* StreamingResponse is returned.  A thread that is gone ends the request
\* with 404; an exception of the store rolls back and ends it with 500.
AppendUserTurn(t) ==
  /\ pc[t] = "loaded"
  /\ IF ~ThreadFound(threads, req[t].key)
     THEN /\ httpStatus' = [httpStatus EXCEPT ![t] = 404]
          /\ pc' = [pc EXCEPT ![t] = "rejected"]
          /\ UNCHANGED <<storeVars, served, llmMessages, userMsgId>>
     ELSE \E ok \in BOOLEAN, d \in ClockGaps :
            IF ok
            THEN /\ threads' = InsertMessage(threads, req[t].key, nextId, "user",
                                             req[t].content, EmptyMeta,
                                             now + 1, now + 1 + d)
                 /\ now' = now + 1 + d
                 /\ nextId' = nextId + 1
                 /\ userMsgId' = [userMsgId EXCEPT ![t] = nextId]
                 /\ llmMessages' = [llmMessages EXCEPT ![t] =
                      [i \in 1 .. Len(history[t]) |-> AsLlmMessage(history[t][i])]
                      \o <<[role |-> "user", content |-> req[t].content]>>]
                 /\ httpStatus' = [httpStatus EXCEPT ![t] = 200]
                 /\ pc' = [pc EXCEPT ![t] = "responding"]
            ELSE /\ d = 0
                 /\ httpStatus' = [httpStatus EXCEPT ![t] = 500]
                 /\ pc' = [pc EXCEPT ![t] = "rejected"]
                 /\ UNCHANGED <<storeVars, served, llmMessages, userMsgId>>
  /\ UNCHANGED <<served, req, history, full_response, assistant_message_saved, events,
                 lines, received, frameDone, streamEnd, opens, asstMsgId,
                 saveResult, chunk, error>>
  /\ sessions' = [sessions EXCEPT ![t] = UseSession(@, RequestSession, "user", FALSE)]
  /\ UNCHANGED apiVars

\* The try body raised e: generate_response enters "except Exception as e".
Raise(t, e) ==
  /\ error' = [error EXCEPT ![t] = e]
  /\ streamEnd' = [streamEnd EXCEPT ![t] = "raised"]
  /\ pc' = [pc EXCEPT ![t] =
              AfterRaise(full_response[t], assistant_message_saved[t])]

\* The fragment loop ended (StopAsyncIteration).
EndNormally(t) ==
  /\ streamEnd' = [streamEnd EXCEPT ![t] = "normal"]
  /\ pc' = [pc EXCEPT ![t] = AfterStream(full_response[t])]
  /\ UNCHANGED error

\* Mutant of OpenStream: a request that fails is sent once more.
OpenStreamWithRetry(t) ==
  /\ pc[t] = "responding"
  /\ opens' = [opens EXCEPT ![t] = @ + 1]
  /\ \E outcome \in {"ok", "connect", "not_found", "api_error"} :
       IF outcome = "ok"
       THEN /\ pc' = [pc EXCEPT ![t] = "streaming"]
            /\ UNCHANGED <<error, streamEnd>>
       ELSE IF opens[t] = 0
       THEN UNCHANGED <<pc, error, streamEnd>>
       ELSE Raise(t, outcome)
  /\ UNCHANGED <<storeVars, served, req, history, llmMessages, full_response,
                 assistant_message_saved, events, httpStatus, lines, received,
                 frameDone, userMsgId, asstMsgId, saveResult, chunk>>
  /\ UNCHANGED <<sessions, apiVars>>

\* generate_response starts; stream_chat sends the POST /api/chat request.
\* connect: httpx.RequestError; not_found: status 404; api_error: another
\* error status (raise_for_status); each is re-raised as ValueError.
OpenStream(t) ==
  /\ pc[t] = "responding"
  /\ opens' = [opens EXCEPT ![t] = @ + 1]
  /\ \E outcome \in {"ok", "connect", "not_found", "api_error"} :
       IF outcome = "ok"
       THEN /\ pc' = [pc EXCEPT ![t] = "streaming"]
            /\ UNCHANGED <<error, streamEnd>>
       ELSE Raise(t, outcome)
  /\ UNCHANGED <<storeVars, served, req, history, llmMessages, full_response,
                 assistant_message_saved, events, httpStatus, lines, received,
                 frameDone, userMsgId, asstMsgId, saveResult, chunk>>
  /\ UNCHANGED <<sessions, apiVars>>

(* ---------------- the adapter: OllamaClient.stream_chat --------------- *)

\* Mutant of ContentGuard: the content of a frame is yielded whether it is
\* empty or not.
ContentGuardNone(content) == TRUE

\* "if content:" before the yield of stream_chat.
ContentGuard(content) == content # << >>

\* Mutant of DecodeLine: the done flag of a frame is not looked at.
DecodeLineIgnoreDone(f) ==
  CASE f.kind \in {"empty", "badjson"} -> [yield |-> << >>, next |-> "continue"]
    [] f.kind \in {"nonobject", "badmsg"} -> [yield |-> << >>, next |-> "raise"]
    [] f.kind = "nomsg" -> [yield |-> << >>, next |-> "continue"]
    [] f.kind = "msg" -> [yield |-> f.content, next |-> "continue"]

\* What the body of "async for line in response.aiter_lines()" does with
\* one line: the content it yields (<< >>: it yields nothing) and how the
\* loop goes on.  An empty line and a line that is not JSON are skipped;
\* valid JSON that is not an object raises (TypeError, AttributeError) out
\* of the generator, and so does an object whose message is a number or
\* null ("content" in data["message"]); content is yielded only when
\* non-empty; done breaks.
DecodeLine(f) ==
  CASE f.kind \in {"empty", "badjson"} -> [yield |-> << >>, next |-> "continue"]
    [] f.kind \in {"nonobject", "badmsg"} -> [yield |-> << >>, next |-> "raise"]
    [] f.kind = "nomsg" ->
         [yield |-> << >>, next |-> IF f.done THEN "break" ELSE "continue"]
    [] f.kind = "msg" ->
         [yield |-> f.content, next |-> IF f.done THEN "break" ELSE "continue"]

\* Mutant of ReadLine: full_response is a variable of the module, shared by
\* the generators of all requests.
ReadLineSharedAccumulator(t) ==
  /\ pc[t] = "streaming"
  /\ lines[t] < MaxLines
  /\ lines' = [lines EXCEPT ![t] = @ + 1]
  /\ \E f \in Frames :
       LET r == DecodeLine(f) IN
       IF ContentGuard(r.yield)
       THEN /\ chunk' = [chunk EXCEPT ![t] = r.yield]
            /\ received' = [received EXCEPT ![t] = Append(@, r.yield)]
            /\ full_response' =
                 [u \in DOMAIN full_response |->
                    Accumulate(full_response[u], r.yield)]
            /\ frameDone' = [frameDone EXCEPT ![t] = (r.next = "break")]
            /\ pc' = [pc EXCEPT ![t] = "push"]
            /\ UNCHANGED <<error, streamEnd>>
       ELSE /\ UNCHANGED <<chunk, received, full_response, frameDone>>
            /\ CASE r.next = "continue" -> UNCHANGED <<pc, error, streamEnd>>
                 [] r.next = "break" -> EndNormally(t)
                 [] r.next = "raise" -> Raise(t, "type_error")
  /\ UNCHANGED <<storeVars, served, req, history, llmMessages, assistant_message_saved,
                 events, httpStatus, opens, userMsgId, asstMsgId, saveResult>>
  /\ UNCHANGED <<sessions, apiVars>>

\* The loop of generate_response asks for the next fragment and the
\* transport delivers one more line.  A yielded fragment reaches the loop
\* body, which appends it to the accumulator before it pushes it.
ReadLine(t) ==
  /\ pc[t] = "streaming"
  /\ lines[t] < MaxLines
  /\ lines' = [lines EXCEPT ![t] = @ + 1]
  /\ \E f \in Frames :
       LET r == DecodeLine(f) IN
       IF ContentGuard(r.yield)
       THEN /\ chunk' = [chunk EXCEPT ![t] = r.yield]
            /\ received' = [received EXCEPT ![t] = Append(@, r.yield)]
            /\ full_response' = [full_response EXCEPT ![t] = Accumulate(@, r.yield)]
            /\ frameDone' = [frameDone EXCEPT ![t] = (r.next = "break")]
            /\ pc' = [pc EXCEPT ![t] = "push"]
            /\ UNCHANGED <<error, streamEnd>>
       ELSE /\ UNCHANGED <<chunk, received, full_response, frameDone>>
            /\ CASE r.next = "continue" -> UNCHANGED <<pc, error, streamEnd>>
                 [] r.next = "break" -> EndNormally(t)
                 [] r.next = "raise" -> Raise(t, "type_error")
  /\ UNCHANGED <<storeVars, served, req, history, llmMessages, assistant_message_saved,
                 events, httpStatus, opens, userMsgId, asstMsgId, saveResult>>
  /\ UNCHANGED <<sessions, apiVars>>

\* The transport ends without a frame marked done: aiter_lines is exhausted.
EndOfLines(t) ==
  /\ pc[t] = "streaming"
  /\ EndNormally(t)
  /\ UNCHANGED <<storeVars, served, req, history, llmMessages, full_response,
                 assistant_message_saved, events, httpStatus, lines, received,
                 frameDone, opens, userMsgId, asstMsgId, saveResult, chunk>>
  /\ UNCHANGED <<sessions, apiVars>>

\* The backend drops the connection or times out while a line is awaited:
\* httpx.RequestError, re-raised as ValueError.
TransportError(t) ==
  /\ pc[t] = "streaming"
  /\ Raise(t, "transport")
  /\ UNCHANGED <<storeVars, served, req, history, llmMessages, full_response,
                 assistant_message_saved, events, httpStatus, lines, received,
                 frameDone, opens, userMsgId, asstMsgId, saveResult, chunk>>
  /\ UNCHANGED <<sessions, apiVars>>

(* --------------- the relay: generate_response, continued -------------- *)

\* Mutant of PushFragment: the record carries the text accumulated so far
\* instead of the fragment.
PushFragmentAccumulated(t) ==
  /\ pc[t] = "push"
  /\ events' = [events EXCEPT ![t] = Append(@, FragmentRecord(full_response[t]))]
  /\ IF frameDone[t]
     THEN EndNormally(t)
     ELSE /\ pc' = [pc EXCEPT ![t] = "streaming"]
          /\ UNCHANGED <<error, streamEnd>>
  /\ UNCHANGED <<storeVars, served, req, history, llmMessages, full_response,
                 assistant_message_saved, httpStatus, lines, received,
                 frameDone, opens, userMsgId, asstMsgId, saveResult, chunk>>
  /\ UNCHANGED <<sessions, apiVars>>

\* yield f"data: {json.dumps({'content': chunk, 'done': False})}\n\n".
\* When the loop asks for the next fragment, stream_chat resumes after its
\* yield and breaks if the frame was marked done.
PushFragment(t) ==
  /\ pc[t] = "push"
  /\ events' = [events EXCEPT ![t] = Append(@, FragmentRecord(chunk[t]))]
  /\ IF frameDone[t]
     THEN EndNormally(t)
     ELSE /\ pc' = [pc EXCEPT ![t] = "streaming"]
          /\ UNCHANGED <<error, streamEnd>>
  /\ UNCHANGED <<storeVars, served, req, history, llmMessages, full_response,
                 assistant_message_saved, httpStatus, lines, received,
                 frameDone, opens, userMsgId, asstMsgId, saveResult, chunk>>
  /\ UNCHANGED <<sessions, apiVars>>

\* Mutant of SaveAssistant: the write is not wrapped in its own try/except,
\* so an exception of the store reaches the outer "except Exception".
SaveAssistantUnguarded(t) ==
  /\ pc[t] = "saving"
  /\ IF ~ThreadFound(threads, req[t].key)
     THEN /\ saveResult' = [saveResult EXCEPT ![t] = "notfound"]
          /\ pc' = [pc EXCEPT ![t] = "sendDone"]
          /\ UNCHANGED <<storeVars, assistant_message_saved, asstMsgId, error>>
     ELSE \E ok \in BOOLEAN, d \in ClockGaps :
            IF ok
            THEN /\ threads' = InsertMessage(threads, req[t].key, nextId,
                                             "assistant", full_response[t],
                                             EmptyMeta, now + 1, now + 1 + d)
                 /\ now' = now + 1 + d
                 /\ nextId' = nextId + 1
                 /\ asstMsgId' = [asstMsgId EXCEPT ![t] = nextId]
                 /\ assistant_message_saved' =
                      [assistant_message_saved EXCEPT ![t] = TRUE]
                 /\ saveResult' = [saveResult EXCEPT ![t] = "ok"]
                 /\ pc' = [pc EXCEPT ![t] = "sendDone"]
                 /\ UNCHANGED error
            ELSE /\ d = 0
                 /\ saveResult' = [saveResult EXCEPT ![t] = "raised"]
                 /\ error' = [error EXCEPT ![t] = "store"]
                 /\ pc' = [pc EXCEPT ![t] = "sendError"]
                 /\ UNCHANGED <<storeVars, assistant_message_saved, asstMsgId>>
  /\ UNCHANGED <<served, req, history, llmMessages, full_response, events,
                 httpStatus, lines, received, frameDone, streamEnd, opens,
                 userMsgId, chunk>>
  /\ sessions' = [sessions EXCEPT ![t] = UseSession(@, AcquireSession(@), "assistant", opens[t] > 0)]
  /\ UNCHANGED apiVars

\* Mutant of SaveAssistant: the saved flag is set before the commit is
\* awaited, so it stays set when the commit raises.
SaveAssistantFlagFirst(t) ==
  /\ pc[t] = "saving"
  /\ IF ~ThreadFound(threads, req[t].key)
     THEN /\ saveResult' = [saveResult EXCEPT ![t] = "notfound"]
          /\ UNCHANGED <<storeVars, served, assistant_message_saved, asstMsgId>>
     ELSE \E ok \in BOOLEAN, d \in ClockGaps :
            IF ok
            THEN /\ threads' = InsertMessage(threads, req[t].key, nextId,
                                             "assistant", full_response[t],
                                             EmptyMeta, now + 1, now + 1 + d)
                 /\ now' = now + 1 + d
                 /\ nextId' = nextId + 1
                 /\ asstMsgId' = [asstMsgId EXCEPT ![t] = nextId]
                 /\ assistant_message_saved' =
                      [assistant_message_saved EXCEPT ![t] = TRUE]
                 /\ saveResult' = [saveResult EXCEPT ![t] = "ok"]
            ELSE /\ d = 0
                 /\ saveResult' = [saveResult EXCEPT ![t] = "raised"]
                 /\ assistant_message_saved' =
                      [assistant_message_saved EXCEPT ![t] = TRUE]
                 /\ UNCHANGED <<storeVars, served, asstMsgId>>
  /\ pc' = [pc EXCEPT ![t] = "sendDone"]
  /\ UNCHANGED <<served, req, history, llmMessages, full_response, events, httpStatus,
                 lines, received, frameDone, streamEnd, opens, userMsgId,
                 chunk, error>>
  /\ sessions' = [sessions EXCEPT ![t] = UseSession(@, AcquireSession(@), "assistant", opens[t] > 0)]
  /\ UNCHANGED apiVars

\* The assistant write of the completed path, on a session of its own:
\* create_chat_message(role="assistant", metadata={}), and commit only if
\* the thread was found.  An exception of the store is logged and dropped.
SaveAssistant(t) ==
  /\ pc[t] = "saving"
  /\ IF ~ThreadFound(threads, req[t].key)
     THEN /\ saveResult' = [saveResult EXCEPT ![t] = "notfound"]
          /\ UNCHANGED <<storeVars, served, assistant_message_saved, asstMsgId>>
     ELSE \E ok \in BOOLEAN, d \in ClockGaps :
            IF ok
            THEN /\ threads' = InsertMessage(threads, req[t].key, nextId,
                                             "assistant", full_response[t],
                                             EmptyMeta, now + 1, now + 1 + d)
                 /\ now' = now + 1 + d
                 /\ nextId' = nextId + 1
                 /\ asstMsgId' = [asstMsgId EXCEPT ![t] = nextId]
                 /\ assistant_message_saved' =
                      [assistant_message_saved EXCEPT ![t] = TRUE]
                 /\ saveResult' = [saveResult EXCEPT ![t] = "ok"]
            ELSE /\ d = 0
                 /\ saveResult' = [saveResult EXCEPT ![t] = "raised"]
                 /\ UNCHANGED <<storeVars, served, assistant_message_saved, asstMsgId>>
  /\ pc' = [pc EXCEPT ![t] = "sendDone"]
  /\ UNCHANGED <<served, req, history, llmMessages, full_response, events, httpStatus,
                 lines, received, frameDone, streamEnd, opens, userMsgId,
                 chunk, error>>
  /\ sessions' = [sessions EXCEPT ![t] = UseSession(@, AcquireSession(@), "assistant", opens[t] > 0)]
  /\ UNCHANGED apiVars

\* yield the done record with the saved flag.
PushDone(t) ==
  /\ pc[t] = "sendDone"
  /\ events' = [events EXCEPT ![t] =
                  Append(@, DoneRecord(assistant_message_saved[t]))]
  /\ pc' = [pc EXCEPT ![t] = "done"]
  /\ UNCHANGED <<storeVars, served, req, history, llmMessages, full_response,
                 assistant_message_saved, httpStatus, lines, received,
                 frameDone, streamEnd, opens, userMsgId, asstMsgId,
                 saveResult, chunk, error>>
  /\ UNCHANGED <<sessions, apiVars>>

\* Mutant of SavePartial: the partial write is not wrapped in its own
\* try/except, so an exception of the store leaves the generator.
SavePartialUnguarded(t) ==
  /\ pc[t] = "savingPartial"
  /\ IF ~ThreadFound(threads, req[t].key)
     THEN /\ saveResult' = [saveResult EXCEPT ![t] = "notfound"]
          /\ pc' = [pc EXCEPT ![t] = "sendError"]
          /\ UNCHANGED <<storeVars, served, asstMsgId>>
     ELSE \E ok \in BOOLEAN, d \in ClockGaps :
            IF ok
            THEN /\ threads' = InsertMessage(threads, req[t].key, nextId,
                                             "assistant", full_response[t],
                                             InterruptedMeta, now + 1, now + 1 + d)
                 /\ now' = now + 1 + d
                 /\ nextId' = nextId + 1
                 /\ asstMsgId' = [asstMsgId EXCEPT ![t] = nextId]
                 /\ saveResult' = [saveResult EXCEPT ![t] = "ok"]
                 /\ pc' = [pc EXCEPT ![t] = "sendError"]
            ELSE /\ d = 0
                 /\ saveResult' = [saveResult EXCEPT ![t] = "raised"]
                 /\ pc' = [pc EXCEPT ![t] = "crashed"]
                 /\ UNCHANGED <<storeVars, served, asstMsgId>>
  /\ UNCHANGED <<served, req, history, llmMessages, full_response,
                 assistant_message_saved, events, httpStatus, lines, received,
                 frameDone, streamEnd, opens, userMsgId, chunk, error>>
  /\ sessions' = [sessions EXCEPT ![t] =
                    UseSession(@, AcquireSession(@), "partial", opens[t] > 0)]
  /\ UNCHANGED apiVars

\* The assistant write of the except path, on a session of its own:
\* create_chat_message with the interruption metadata, its result ignored,
\* then commit.  An exception of the store is logged and dropped.
SavePartial(t) ==
  /\ pc[t] = "savingPartial"
  /\ IF ~ThreadFound(threads, req[t].key)
     THEN /\ saveResult' = [saveResult EXCEPT ![t] = "notfound"]
          /\ UNCHANGED <<storeVars, served, asstMsgId>>
     ELSE \E ok \in BOOLEAN, d \in ClockGaps :
            IF ok
            THEN /\ threads' = InsertMessage(threads, req[t].key, nextId,
                                             "assistant", full_response[t],
                                             InterruptedMeta, now + 1, now + 1 + d)
                 /\ now' = now + 1 + d
                 /\ nextId' = nextId + 1
                 /\ asstMsgId' = [asstMsgId EXCEPT ![t] = nextId]
                 /\ saveResult' = [saveResult EXCEPT ![t] = "ok"]
            ELSE /\ d = 0
                 /\ saveResult' = [saveResult EXCEPT ![t] = "raised"]
                 /\ UNCHANGED <<storeVars, served, asstMsgId>>
  /\ pc' = [pc EXCEPT ![t] = "sendError"]
  /\ UNCHANGED <<served, req, history, llmMessages, full_response,
                 assistant_message_saved, events, httpStatus, lines, received,
                 frameDone, streamEnd, opens, userMsgId, chunk, error>>
  /\ sessions' = [sessions EXCEPT ![t] = UseSession(@, AcquireSession(@), "partial", opens[t] > 0)]
  /\ UNCHANGED apiVars

\* Mutant of PushError: the error record is yielded by the handler of the
\* partial write and again by the outer handler.
PushErrorTwice(t) ==
  /\ pc[t] = "sendError"
  /\ events' = [events EXCEPT ![t] =
                  @ \o <<ErrorRecord(error[t]), ErrorRecord(error[t])>>]
  /\ pc' = [pc EXCEPT ![t] = "done"]
  /\ UNCHANGED <<storeVars, served, req, history, llmMessages, full_response,
                 assistant_message_saved, httpStatus, lines, received,
                 frameDone, streamEnd, opens, userMsgId, asstMsgId,
                 saveResult, chunk, error>>
  /\ UNCHANGED <<sessions, apiVars>>

\* yield f"data: {json.dumps({'error': str(e), 'done': True})}\n\n".
PushError(t) ==
  /\ pc[t] = "sendError"
  /\ events' = [events EXCEPT ![t] = Append(@, ErrorRecord(error[t]))]
  /\ pc' = [pc EXCEPT ![t] = "done"]
  /\ UNCHANGED <<storeVars, served, req, history, llmMessages, full_response,
                 assistant_message_saved, httpStatus, lines, received,
                 frameDone, streamEnd, opens, userMsgId, asstMsgId,
                 saveResult, chunk, error>>
  /\ UNCHANGED <<sessions, apiVars>>

\* The request is over (the generator is exhausted, or the HTTP error was
\* sent); the slot serves the next request with fresh locals.
FinishTurn(t) ==
  /\ pc[t] \in {"done", "rejected"}
  /\ pc' = [pc EXCEPT ![t] = "idle"]
  /\ req' = [req EXCEPT ![t] = IdleReq]
  /\ history' = [history EXCEPT ![t] = << >>]
  /\ llmMessages' = [llmMessages EXCEPT ![t] = << >>]
  /\ full_response' = [full_response EXCEPT ![t] = << >>]
  /\ assistant_message_saved' = [assistant_message_saved EXCEPT ![t] = FALSE]
  /\ events' = [events EXCEPT ![t] = << >>]
  /\ httpStatus' = [httpStatus EXCEPT ![t] = 0]
  /\ lines' = [lines EXCEPT ![t] = 0]
  /\ received' = [received EXCEPT ![t] = << >>]
  /\ frameDone' = [frameDone EXCEPT ![t] = FALSE]
  /\ streamEnd' = [streamEnd EXCEPT ![t] = "none"]
  /\ opens' = [opens EXCEPT ![t] = 0]
  /\ userMsgId' = [userMsgId EXCEPT ![t] = 0]
  /\ asstMsgId' = [asstMsgId EXCEPT ![t] = 0]
  /\ saveResult' = [saveResult EXCEPT ![t] = "none"]
  /\ chunk' = [chunk EXCEPT ![t] = << >>]
  /\ error' = [error EXCEPT ![t] = "none"]
  /\ UNCHANGED <<storeVars, served>>
  /\ sessions' = [sessions EXCEPT ![t] = << >>]
  /\ UNCHANGED apiVars

(* --------------------------- specification ---------------------------- *)

\* Requests are served one at a time.
Next ==
  \E t \in Turns :
    \/ Quiet /\ served < MaxRequests /\ StartTurn(t)
    \/ AppendUserTurn(t)
    \/ OpenStream(t)
    \/ ReadLine(t)
    \/ EndOfLines(t)
    \/ TransportError(t)
    \/ PushFragment(t)
    \/ SaveAssistant(t)
    \/ PushDone(t)
    \/ SavePartial(t)
    \/ PushError(t)
    \/ FinishTurn(t)

Spec == Init /\ [][Next]_vars

\* The steps generate_response takes by itself once the backend has
\* answered: the event loop resumes the generator when the store call it
\* awaits returns or raises, and the caller keeps reading the response.
RelayStep(t) ==
  \/ PushFragment(t)
  \/ SaveAssistant(t)
  \/ PushDone(t)
  \/ SavePartial(t)
  \/ PushError(t)

\* A turn streams only on a thread it found: the store the fair
\* specification starts from holds an exchange in both threads.
FairInit == Init /\ \A k \in ThreadKeys : threads[k].messages # << >>

\* The sequential specification with the relay's own steps scheduled fairly.
FairSpec == FairInit /\ [][Next]_vars /\ \A t \in Turns : WF_vars(RelayStep(t))

\* The turns being served work on other threads than the one the request
\* that arrives at slot t in this step is for.
OnOtherThreads(t) ==
  \A u \in DOMAIN pc \ {t} : pc[u] # "idle" => req[u].key # req'[t].key

\* Streaming turns on different threads, served concurrently: each turn is
\* a task of the event loop, and the steps of the turns interleave at
\* every await and every yield.  Each slot serves one request.
NextConc ==
  \E t \in ConcurrentTurns :
    \/ FirstFree(t) /\ served < MaxConcurrent /\ StartTurn(t) /\ OnOtherThreads(t)
    \/ AppendUserTurn(t)
    \/ OpenStream(t)
    \/ ReadLine(t)
    \/ EndOfLines(t)
    \/ TransportError(t)
    \/ PushFragment(t)
    \/ SaveAssistant(t)
    \/ PushDone(t)
    \/ SavePartial(t)
    \/ PushError(t)

\* A turn streams only on a thread it found: the store the concurrent
\* specification starts from holds an exchange in both threads.
ConcInit ==
  InitWith(ConcurrentTurns) /\ \A k \in ThreadKeys : threads[k].messages # << >>

SpecConc == ConcInit /\ [][NextConc]_vars

\* The turns being served work on the thread the request that arrives at
\* slot t in this step is for.
OnSameThread(t) ==
  \A u \in DOMAIN pc \ {t} : pc[u] # "idle" => req[u].key = req'[t].key

\* Streaming turns on one thread, served concurrently.  Each slot serves
\* one request.
NextSame ==
  \E t \in ConcurrentTurns :
    \/ FirstFree(t) /\ served < MaxConcurrent /\ StartTurn(t) /\ OnSameThread(t)
    \/ AppendUserTurn(t)
    \/ OpenStream(t)
    \/ ReadLine(t)
    \/ EndOfLines(t)
    \/ TransportError(t)
    \/ PushFragment(t)
    \/ SaveAssistant(t)
    \/ PushDone(t)
    \/ SavePartial(t)
    \/ PushError(t)

SpecSame == ConcInit /\ [][NextSame]_vars

\* Mutant of RelayCatches: the handler is a bare "except:", which catches
\* every exception.
RelayCatchesAll(exc) == TRUE

\* "except Exception as e" of generate_response: asyncio.CancelledError
\* and GeneratorExit derive from BaseException, not from Exception, and
\* pass through it.
RelayCatches(exc) == exc \notin {"CancelledError", "GeneratorExit"}

\* The caller disconnects and the server gives the response up.  While
\* generate_response awaits the next fragment its task is cancelled
\* (CancelledError at the await); while it is suspended at the yield of a
\* fragment record the generator is closed (GeneratorExit at the yield)
\* and the record is not delivered.  An exception the handler does not
\* catch ends the generator; error holds the exception thrown in.
Disconnect(t) ==
  /\ pc[t] \in {"streaming", "push"}
  /\ LET exc == IF pc[t] = "streaming" THEN "CancelledError"
                ELSE "GeneratorExit"
     IN IF RelayCatches(exc)
        THEN Raise(t, "cancelled")
        ELSE /\ pc' = [pc EXCEPT ![t] = "closed"]
             /\ streamEnd' = [streamEnd EXCEPT ![t] = "closed"]
             /\ error' = [error EXCEPT ![t] = "cancelled"]
  /\ UNCHANGED <<storeVars, served, req, history, llmMessages, full_response,
                 assistant_message_saved, events, httpStatus, lines, received,
                 frameDone, opens, userMsgId, asstMsgId, saveResult, chunk>>
  /\ UNCHANGED <<sessions, apiVars>>

\* Streaming turns, one at a time, with callers that may disconnect.
NextCancel ==
  \/ Next
  \/ \E t \in Turns : Disconnect(t)

SpecCancel == Init /\ [][NextCancel]_vars

(* -------------------- the thread and message API ---------------------- *)

\* A request arrives and is served by the first free slot.
StartApi(a, op, key, title, role, content) ==
  /\ apc[a] = "idle"
  /\ \A b \in Apis : b < a => apc[b] # "idle"
  /\ apiServed < MaxApiRequests
  /\ apiServed' = apiServed + 1
  /\ areq' = [areq EXCEPT ![a] = [op |-> op, key |-> key, title |-> title,
                                   role |-> role, content |-> content]]

\* Mutant of UniqueViolation: chat_threads has no unique constraint.
UniqueViolationNone(rows, key) == FALSE

\* UniqueConstraint('user_id', 'thread_id', name='uq_user_thread'): the
\* INSERT of a second row for key raises IntegrityError.
UniqueViolation(rows, key) == rows[key] >= 1

\* Mutant of RoleAccepted: the handler passes any role string on.
RoleAcceptedAny(role) == TRUE

\* if request.role not in ["user", "assistant"]: raise HTTPException(400)
RoleAccepted(role) == role \in {"user", "assistant"}

\* POST /api/chat/threads, up to its check: a thread that already exists
\* for this owner ends the request with 400.
CreateThreadCheck(a) ==
  /\ \E key \in ThreadKeys, title \in Titles :
       /\ StartApi(a, "create_thread", key, title, "none", << >>)
       /\ IF ThreadFound(threads, key)
          THEN /\ astatus' = [astatus EXCEPT ![a] = 400]
               /\ UNCHANGED apc
          ELSE /\ astatus' = [astatus EXCEPT ![a] = 0]
               /\ apc' = [apc EXCEPT ![a] = "inserting"]
  /\ UNCHANGED <<storeVars, relayVars, threadRows, titles, completion>>
  /\ UNCHANGED auxVars

\* POST /api/chat/threads, continued: ChatService.create_chat_thread adds
\* and flushes the row, then db.commit().  A row that violates the unique
\* constraint raises out of the handler (500) and is rolled back.
CreateThreadInsert(a) ==
  /\ apc[a] = "inserting"
  /\ LET key == areq[a].key IN
     IF UniqueViolation(threadRows, key)
     THEN /\ astatus' = [astatus EXCEPT ![a] = 500]
          /\ UNCHANGED <<threads, now, threadRows, titles>>
     ELSE /\ threads' = [threads EXCEPT ![key] =
                          [exists |-> TRUE, messages |-> << >>,
                           updated_at |-> now + 1]]
          /\ now' = now + 1
          /\ threadRows' = [threadRows EXCEPT ![key] = @ + 1]
          /\ titles' = [titles EXCEPT ![key] = areq[a].title]
          /\ astatus' = [astatus EXCEPT ![a] = 200]
  /\ apc' = [apc EXCEPT ![a] = "idle"]
  /\ UNCHANGED <<nextId, relayVars, apiServed, areq, completion>>
  /\ UNCHANGED auxVars

\* PUT /api/chat/threads/{thread_id}: update_chat_thread_title sets the
\* title and thread.updated_at = datetime.utcnow(), then db.commit().
UpdateTitle(a) ==
  /\ \E key \in ThreadKeys, title \in Titles :
       /\ StartApi(a, "update_title", key, title, "none", << >>)
       /\ IF ThreadFound(threads, key)
          THEN /\ titles' = [titles EXCEPT ![key] = title]
               /\ threads' = [threads EXCEPT ![key].updated_at = now + 1]
               /\ now' = now + 1
               /\ astatus' = [astatus EXCEPT ![a] = 200]
          ELSE /\ astatus' = [astatus EXCEPT ![a] = 404]
               /\ UNCHANGED <<threads, now, titles>>
  /\ UNCHANGED <<nextId, relayVars, threadRows, apc, completion>>
  /\ UNCHANGED auxVars

\* POST /api/chat/threads/{thread_id}/messages: the role is checked, then
\* create_chat_message and db.commit().
CreateMessage(a) ==
  /\ \E key \in ThreadKeys, role \in RequestedRoles, c \in ApiContents,
        d \in ClockGaps :
       /\ StartApi(a, "create_message", key, NoTitle, role, c)
       /\ IF ~RoleAccepted(role)
          THEN /\ d = 0
               /\ astatus' = [astatus EXCEPT ![a] = 400]
               /\ UNCHANGED storeVars
          ELSE IF ~ThreadFound(threads, key)
          THEN /\ d = 0
               /\ astatus' = [astatus EXCEPT ![a] = 404]
               /\ UNCHANGED storeVars
          ELSE /\ threads' = InsertMessage(threads, key, nextId, role, c,
                                           EmptyMeta, now + 1, now + 1 + d)
               /\ now' = now + 1 + d
               /\ nextId' = nextId + 1
               /\ astatus' = [astatus EXCEPT ![a] = 200]
  /\ UNCHANGED <<relayVars, threadRows, titles, apc, completion>>
  /\ UNCHANGED auxVars

\* Mutant of DeleteThread: the thread row is deleted and its messages stay
\* (no cascade on the relationship or the foreign key).
DeleteThreadNoCascade(a) ==
  /\ \E key \in ThreadKeys :
       /\ StartApi(a, "delete_thread", key, NoTitle, "none", << >>)
       /\ IF ThreadFound(threads, key)
          THEN /\ threads' = [threads EXCEPT ![key].exists = FALSE]
               /\ threadRows' = [threadRows EXCEPT ![key] = 0]
               /\ titles' = [titles EXCEPT ![key] = NoTitle]
               /\ astatus' = [astatus EXCEPT ![a] = 200]
          ELSE /\ astatus' = [astatus EXCEPT ![a] = 404]
               /\ UNCHANGED <<threads, threadRows, titles>>
  /\ UNCHANGED <<now, nextId, relayVars, apc, completion>>
  /\ UNCHANGED auxVars

\* DELETE /api/chat/threads/{thread_id}: the thread row is deleted, its
\* messages with it (cascade), then db.commit().
DeleteThread(a) ==
  /\ \E key \in ThreadKeys :
       /\ StartApi(a, "delete_thread", key, NoTitle, "none", << >>)
       /\ IF ThreadFound(threads, key)
          THEN /\ threads' = [threads EXCEPT ![key] = NoThread]
               /\ threadRows' = [threadRows EXCEPT ![key] = 0]
               /\ titles' = [titles EXCEPT ![key] = NoTitle]
               /\ astatus' = [astatus EXCEPT ![a] = 200]
          ELSE /\ astatus' = [astatus EXCEPT ![a] = 404]
               /\ UNCHANGED <<threads, threadRows, titles>>
  /\ UNCHANGED <<now, nextId, relayVars, apc, completion>>
  /\ UNCHANGED auxVars

\* Mutant of ReadThread: loading the thread touches its row, and the
\* onupdate default of updated_at fires.
ReadThreadTouching(a) ==
  /\ \E key \in ThreadKeys :
       /\ StartApi(a, "get_thread", key, NoTitle, "none", << >>)
       /\ IF ThreadFound(threads, key)
          THEN /\ threads' = [threads EXCEPT ![key].updated_at = now + 1]
               /\ now' = now + 1
               /\ astatus' = [astatus EXCEPT ![a] = 200]
          ELSE /\ astatus' = [astatus EXCEPT ![a] = 404]
               /\ UNCHANGED <<threads, now>>
  /\ UNCHANGED <<nextId, relayVars, threadRows, titles, apc, completion>>
  /\ UNCHANGED auxVars

\* GET /api/chat/threads/{thread_id} and GET .../messages: the thread and
\* its messages are read.
ReadThread(a) ==
  /\ \E key \in ThreadKeys :
       /\ StartApi(a, "get_thread", key, NoTitle, "none", << >>)
       /\ astatus' = [astatus EXCEPT ![a] =
                        IF ThreadFound(threads, key) THEN 200 ELSE 404]
  /\ UNCHANGED <<storeVars, relayVars, threadRows, titles, apc, completion>>
  /\ UNCHANGED auxVars

\* The requests of the thread and message API, overlapping each other.
NextApi ==
  \E a \in Apis :
    \/ CreateThreadCheck(a)
    \/ CreateThreadInsert(a)
    \/ UpdateTitle(a)
    \/ CreateMessage(a)
    \/ DeleteThread(a)
    \/ ReadThread(a)

SpecApi == Init /\ [][NextApi]_vars

\* The turns are idle or about to access the store.  A step of an API
\* handler and a step of a turn that does not access the store commute, so
\* the API steps are taken at these points only.
AtStoreAccess ==
  \A t \in Turns : pc[t] \in {"idle", "loaded", "saving", "savingPartial"}

\* Streaming turns, one at a time, with API requests that overlap them and
\* each other.
NextStore ==
  \/ Next
  \/ \E a \in Apis :
       \/ AtStoreAccess /\ CreateThreadCheck(a)
       \/ AtStoreAccess /\ CreateThreadInsert(a)
       \/ AtStoreAccess /\ UpdateTitle(a)
       \/ AtStoreAccess /\ CreateMessage(a)
       \/ AtStoreAccess /\ DeleteThread(a)
       \/ AtStoreAccess /\ ReadThread(a)

SpecStore == Init /\ [][NextStore]_vars

(* --------------- the adapter: non-streaming completion ---------------- *)

\* The characters of a response content: a blank and a letter.
Chars == {" ", "a"}
\* The contents a non-streaming backend response carries; a response
\* without the key is read as the empty text (data.get(..., "")).
Texts == UNION {[1 .. n -> Chars] : n \in 0 .. MaxTextLen}

\* str.strip(): leading and trailing blanks removed.
RECURSIVE LStrip(_)
LStrip(s) == IF s # << >> /\ Head(s) = " " THEN LStrip(Tail(s)) ELSE s
RECURSIVE RStrip(_)
RStrip(s) ==
  IF s # << >> /\ s[Len(s)] = " " THEN RStrip(SubSeq(s, 1, Len(s) - 1)) ELSE s
Strip(s) == RStrip(LStrip(s))

\* What the backend does instead of answering 200: status 404, another
\* error status, or no connection; each is re-raised as ValueError.
BackendErrors == {"not_found", "api_error", "connect"}

\* A caller asks for a completion, from OllamaClient.chat_completion
\* (POST /api/chat) or from LLMClient._ollama_chat (POST /api/generate).
CallComplete ==
  /\ completion.pc = "idle"
  /\ \E impl \in {"OllamaClient", "LLMClient"} :
       completion' = [completion EXCEPT
                        !.impl = impl,
                        !.pc = IF impl = "LLMClient" THEN "generate" ELSE "chat"]
  /\ UNCHANGED <<storeVars, relayVars, threadRows, titles, apiServed, apc,
                 areq, astatus>>
  /\ UNCHANGED auxVars

\* LLMClient._ollama_chat: /api/generate answers.  A response that is not
\* blank is returned stripped; a blank one makes the client ask /api/chat.
GenerateResponds ==
  /\ completion.pc = "generate"
  /\ \/ \E c \in Texts :
          completion' = [completion EXCEPT
                           !.content = c,
                           !.result = Strip(c),
                           !.pc = IF Strip(c) # << >> THEN "returned" ELSE "chat"]
     \/ \E e \in BackendErrors :
          completion' = [completion EXCEPT
                           !.content = << >>, !.result = <<e>>, !.pc = "raised"]
  /\ UNCHANGED <<storeVars, relayVars, threadRows, titles, apiServed, apc,
                 areq, astatus>>
  /\ UNCHANGED auxVars

\* /api/chat answers (both clients):
\* return data.get("message", {}).get("content", "").strip()
ChatResponds ==
  /\ completion.pc = "chat"
  /\ \/ \E c \in Texts :
          completion' = [completion EXCEPT
                           !.content = c, !.result = Strip(c), !.pc = "returned"]
     \/ \E e \in BackendErrors :
          completion' = [completion EXCEPT
                           !.content = << >>, !.result = <<e>>, !.pc = "raised"]
  /\ UNCHANGED <<storeVars, relayVars, threadRows, titles, apiServed, apc,
                 areq, astatus>>
  /\ UNCHANGED auxVars

NextComplete == CallComplete \/ GenerateResponds \/ ChatResponds

SpecComplete == Init /\ [][NextComplete]_vars

(* ------------- create-message requests, statement by statement ------- *)

\* Mutant of Autocommit: the sessions commit every statement by itself.
AutocommitOn == TRUE

\* async_sessionmaker(..., autocommit=False): the statements of a session
\* take effect together, at commit.
Autocommit == FALSE

\* POST /api/chat/threads/{thread_id}/messages up to the flush: the role
\* is checked, the thread looked up, the row added to the session and
\* thread.updated_at assigned from the clock.
TxnBegin(a) ==
  /\ \E key \in ThreadKeys, role \in RequestedRoles, c \in ApiContents :
       /\ StartApi(a, "create_message", key, NoTitle, role, c)
       /\ IF ~RoleAccepted(role)
          THEN /\ astatus' = [astatus EXCEPT ![a] = 400]
               /\ UNCHANGED <<now, apc, pending>>
          ELSE IF ~ThreadFound(threads, key)
          THEN /\ astatus' = [astatus EXCEPT ![a] = 404]
               /\ UNCHANGED <<now, apc, pending>>
          ELSE /\ astatus' = [astatus EXCEPT ![a] = 0]
               /\ apc' = [apc EXCEPT ![a] = "flushing"]
               /\ now' = now + 1
               /\ pending' = [pending EXCEPT ![a] =
                                [updated_at |-> now + 1,
                                 todo |-> {"update", "insert"},
                                 row |-> << >>]]
  /\ UNCHANGED <<threads, nextId, relayVars, threadRows, titles, completion,
                 decode, avail, sideVars>>

\* session.flush() sends one of its two statements, the UPDATE of the
\* thread row or the INSERT of the message row, whose id and created_at
\* defaults are evaluated now.  The statement is part of the session's open
\* transaction: the committed store does not show it.
TxnStatement(a) ==
  /\ apc[a] = "flushing"
  /\ \E st \in pending[a].todo, d \in ClockGaps :
       LET key == areq[a].key
           row == NewMessage(nextId, areq[a].role, areq[a].content, EmptyMeta,
                             now + d)
       IN /\ IF st = "insert"
             THEN /\ now' = now + d
                  /\ nextId' = nextId + 1
                  /\ pending' = [pending EXCEPT ![a].todo = @ \ {st},
                                                ![a].row = <<row>>]
                  /\ threads' =
                       IF Autocommit
                       THEN [threads EXCEPT ![key].messages = Append(@, row)]
                       ELSE threads
             ELSE /\ d = 0
                  /\ pending' = [pending EXCEPT ![a].todo = @ \ {st}]
                  /\ threads' =
                       IF Autocommit
                       THEN [threads EXCEPT ![key].updated_at = pending[a].updated_at]
                       ELSE threads
                  /\ UNCHANGED <<now, nextId>>
          /\ apc' = [apc EXCEPT ![a] =
                       IF pending[a].todo = {st} THEN "flushed" ELSE "flushing"]
  /\ UNCHANGED <<relayVars, threadRows, titles, apiServed, areq, astatus,
                 completion, decode, avail, sideVars>>

\* db.commit(): the row and the new updated_at become visible together.
TxnCommit(a) ==
  /\ apc[a] = "flushed"
  /\ LET row == pending[a].row[1] IN
     threads' =
       IF Autocommit THEN threads
       ELSE InsertMessage(threads, areq[a].key, row.id, row.role, row.content,
                          row.metadata, pending[a].updated_at, row.created_at)
  /\ astatus' = [astatus EXCEPT ![a] = 200]
  /\ apc' = [apc EXCEPT ![a] = "idle"]
  /\ pending' = [pending EXCEPT ![a] = NoWrites]
  /\ UNCHANGED <<now, nextId, relayVars, threadRows, titles, apiServed, areq,
                 completion, decode, avail, sideVars>>

\* A statement or the commit raises: the exception leaves the handler
\* (500) and get_db rolls the session back.
TxnFail(a) ==
  /\ apc[a] \in {"flushing", "flushed"}
  /\ astatus' = [astatus EXCEPT ![a] = 500]
  /\ apc' = [apc EXCEPT ![a] = "idle"]
  /\ pending' = [pending EXCEPT ![a] = NoWrites]
  /\ UNCHANGED <<storeVars, relayVars, threadRows, titles, apiServed, areq,
                 completion, decode, avail, sideVars>>

\* Create-message requests, overlapping each other.
NextTxn ==
  \E a \in Apis :
    \/ TxnBegin(a)
    \/ TxnStatement(a)
    \/ TxnCommit(a)
    \/ TxnFail(a)

SpecTxn == Init /\ [][NextTxn]_vars

(* ------------------ the adapter: check_model_available ---------------- *)

\* The model argument of a call: None, or a name.
ModelArgs == {"none", "mistral"}
\* LLMClient.provider_type; OllamaClient has the one backend.
Providers == {"ollama", "openai"}

\* The entries of "models" in the answer of GET /api/tags: an object with
\* a name, an object without one, and a value that is not an object.
ModelEntries ==
  [kind : {"named"}, name : {"llama2", "mistral"}]
  \cup {[kind |-> "noname", name |-> ""], [kind |-> "nonobject", name |-> ""]}

\* What the registry query comes to:
\*   network    no connection, or a timeout (httpx.RequestError)
\*   status     an answer with a status other than 200
\*   notjson    status 200 and a body that is not JSON
\*   nonobject  status 200 and JSON that is not an object
\*   nomodels   status 200 and an object without "models"
\*   badmodels  status 200 and "models" that is not a list (null, a number)
\*   models     status 200 and "models" a list of entries
RegistryReplies ==
  [kind : {"network", "status", "notjson", "nonobject", "nomodels", "badmodels"},
   entries : {<< >>}]
  \cup [kind : {"models"},
        entries : UNION {[1 .. n -> ModelEntries] : n \in 0 .. MaxModels}]

\* Mutant of Caught: the handler is "except httpx.RequestError:".
CaughtRequestErrorOnly(exc) == exc = "RequestError"

\* "except:" catches every exception.
Caught(exc) == TRUE

\* The try body: the exception it raises ("none": it returns) and the
\* value it returns.  m.get("name", "") of an entry without a name is "".
QueryRegistry(reply, model) ==
  CASE reply.kind = "network" -> [exc |-> "RequestError", value |-> "none"]
    [] reply.kind = "status" -> [exc |-> "none", value |-> "False"]
    [] reply.kind = "notjson" -> [exc |-> "JSONDecodeError", value |-> "none"]
    [] reply.kind = "nonobject" -> [exc |-> "AttributeError", value |-> "none"]
    [] reply.kind = "nomodels" -> [exc |-> "none", value |-> "False"]
    [] reply.kind = "badmodels" -> [exc |-> "TypeError", value |-> "none"]
    [] reply.kind = "models" ->
         IF \E i \in 1 .. Len(reply.entries) : reply.entries[i].kind = "nonobject"
         THEN [exc |-> "AttributeError", value |-> "none"]
         ELSE [exc |-> "none",
               value |-> IF \E i \in 1 .. Len(reply.entries) :
                              reply.entries[i].name = model
                         THEN "True" ELSE "False"]

\* model = model or self.default_model
EffectiveModel(arg) == IF arg = "none" THEN ModelName ELSE arg

\* A caller asks whether a model is available.  LLMClient answers True
\* without a query when its provider is not Ollama.
CallCheck ==
  /\ avail.pc = "idle"
  /\ \E impl \in {"OllamaClient", "LLMClient"}, p \in Providers, arg \in ModelArgs :
       /\ impl = "OllamaClient" => p = "ollama"
       /\ avail' = [avail EXCEPT
                      !.impl = impl, !.provider = p, !.model = arg,
                      !.pc = IF p # "ollama" THEN "returned" ELSE "querying",
                      !.result = IF p # "ollama" THEN "True" ELSE "none"]
  /\ UNCHANGED <<storeVars, relayVars, threadRows, titles, apiServed, apc,
                 areq, astatus, completion, decode, pending,
                 sideVars>>

\* The query of GET /api/tags ends; the call returns, or an exception that
\* the handler does not catch leaves it.
RegistryAnswers ==
  /\ avail.pc = "querying"
  /\ \E reply \in RegistryReplies :
       LET r == QueryRegistry(reply, EffectiveModel(avail.model)) IN
       avail' = [avail EXCEPT
                   !.reply = reply,
                   !.result = IF r.exc = "none" THEN r.value
                              ELSE IF Caught(r.exc) THEN "False" ELSE r.exc,
                   !.pc = IF r.exc = "none" \/ Caught(r.exc)
                          THEN "returned" ELSE "raised"]
  /\ UNCHANGED <<storeVars, relayVars, threadRows, titles, apiServed, apc,
                 areq, astatus, completion, decode, pending,
                 sideVars>>

NextAvail == CallCheck \/ RegistryAnswers

SpecAvail == Init /\ [][NextAvail]_vars

(* ------------------- the adapter: one streaming decode ---------------- *)

\* Contents a frame of the decode carries: none, a blank, a letter.
DecodeContents == {<< >>, <<" ">>, <<"a">>}

\* The lines a response body is made of: the frames of Frames with these
\* contents, and
\*   badmsg     an object whose message is not an object (a number, null)
LineFrames ==
  [kind : {"empty", "badjson", "nonobject", "badmsg"}, content : {<< >>},
   done : {FALSE}]
  \cup [kind : {"nomsg"}, content : {<< >>}, done : BOOLEAN]
  \cup [kind : {"msg"}, content : DecodeContents, done : BOOLEAN]

\* The response bodies: at most MaxLines lines.
FrameSeqs == UNION {[1 .. n -> LineFrames] : n \in 0 .. MaxLines}

\* One iteration of "async for line in response.aiter_lines()" over the
\* body d.frames: the next line is decoded, a fragment it yields is handed
\* to the consumer, and the loop goes on, breaks or raises; the loop ends
\* normally when the lines are exhausted.
DecodeStep(d) ==
  IF d.pos = Len(d.frames)
  THEN [d EXCEPT !.pc = "ended", !.end = "normal"]
  ELSE LET r == DecodeLine(d.frames[d.pos + 1])
           got == IF ContentGuard(r.yield) THEN Append(d.fragments, r.yield)
                  ELSE d.fragments
       IN CASE r.next = "continue" ->
                 [d EXCEPT !.pos = @ + 1, !.fragments = got]
            [] r.next = "break" ->
                 [d EXCEPT !.pos = @ + 1, !.fragments = got,
                           !.pc = "ended", !.end = "normal"]
            [] r.next = "raise" ->
                 [d EXCEPT !.pos = @ + 1, !.pc = "ended", !.end = "raised"]

\* stream_chat run to its end over the body fs.
RECURSIVE RunDecode(_)
RunDecode(d) == IF d.pc = "ended" THEN d ELSE RunDecode(DecodeStep(d))
StreamChat(fs) ==
  RunDecode([pc |-> "reading", frames |-> fs, pos |-> 0,
             fragments |-> << >>, end |-> "none"])

\* The backend answers a streaming request with a body.
StartDecode ==
  /\ decode.pc = "idle"
  /\ \E fs \in FrameSeqs :
       decode' = [pc |-> "reading", frames |-> fs, pos |-> 0,
                  fragments |-> << >>, end |-> "none"]
  /\ UNCHANGED <<storeVars, relayVars, threadRows, titles, apiServed, apc,
                 areq, astatus, completion, avail, pending,
                 sideVars>>

\* The consumer asks for the next fragment.
DecodeNext ==
  /\ decode.pc = "reading"
  /\ decode' = DecodeStep(decode)
  /\ UNCHANGED <<storeVars, relayVars, threadRows, titles, apiServed, apc,
                 areq, astatus, completion, avail, pending,
                 sideVars>>

NextDecode == StartDecode \/ DecodeNext

SpecDecode == Init /\ [][NextDecode]_vars

(* ------------- the adapter: the flattened prompt (/api/generate) ------ *)

\* Turns in a messages list handed to LLMClient.chat_completion.
MaxTurns == 2

\* Roles a turn of the list carries: the three the code names, another one
\* ("tool"), and "none" for a turn without a role key.
PromptRoles == {"system", "user", "assistant", "tool", "none"}
PromptContents == {<< >>, <<"a">>}
PromptMessages == [role : PromptRoles, content : PromptContents]
PromptSeqs == UNION {[1 .. n -> PromptMessages] : n \in 0 .. MaxTurns}

\* msg.get("role", "user")
RoleOf(m) == IF m.role = "none" THEN "user" ELSE m.role

\* The label an f-string puts before the content.
Label(role) ==
  CASE role = "system" -> <<"S", "y", "s", "t", "e", "m", ":", " ">>
    [] role = "user" -> <<"U", "s", "e", "r", ":", " ">>
    [] role = "assistant" ->
         <<"A", "s", "s", "i", "s", "t", "a", "n", "t", ":", " ">>

\* Mutant of PromptParts: the segments are put in front of the list.
RECURSIVE PromptPartsReversed(_)
PromptPartsReversed(ms) ==
  IF ms = << >> THEN << >>
  ELSE LET role == RoleOf(Head(ms))
       IN IF role \in {"system", "user", "assistant"}
          THEN PromptPartsReversed(Tail(ms))
                 \o <<Label(role) \o Head(ms).content>>
          ELSE PromptPartsReversed(Tail(ms))

\* The loop over messages: a turn whose role is system, user or assistant
\* appends one labelled segment to prompt_parts; a turn with another role
\* matches no branch of the if/elif chain and appends nothing.
RECURSIVE PromptParts(_)
PromptParts(ms) ==
  IF ms = << >> THEN << >>
  ELSE LET role == RoleOf(Head(ms))
       IN IF role \in {"system", "user", "assistant"}
          THEN <<Label(role) \o Head(ms).content>> \o PromptParts(Tail(ms))
          ELSE PromptParts(Tail(ms))

\* "\n\n".join(parts)
RECURSIVE JoinBlankLine(_)
JoinBlankLine(parts) ==
  IF parts = << >> THEN << >>
  ELSE IF Len(parts) = 1 THEN parts[1]
  ELSE parts[1] \o <<"\n", "\n">> \o JoinBlankLine(Tail(parts))

\* A caller hands a messages list to _ollama_chat.
CallFlatten ==
  /\ prompt.pc = "idle"
  /\ \E ms \in PromptSeqs :
       prompt' = [prompt EXCEPT !.pc = "called", !.messages = ms]
  /\ UNCHANGED <<storeVars, relayVars, threadRows, titles, apiServed, apc,
                 areq, astatus, completion, decode, avail, pending, legacy>>

\* The prompt is built.
BuildPrompt ==
  /\ prompt.pc = "called"
  /\ prompt' = [prompt EXCEPT
                  !.pc = "built",
                  !.parts = PromptParts(prompt.messages),
                  !.text = JoinBlankLine(PromptParts(prompt.messages))]
  /\ UNCHANGED <<storeVars, relayVars, threadRows, titles, apiServed, apc,
                 areq, astatus, completion, decode, avail, pending, legacy>>

NextPrompt == CallFlatten \/ BuildPrompt

SpecPrompt == Init /\ [][NextPrompt]_vars

(* ------------- the relay of backend/main.py (stream_chat_response) ---- *)

\* The records this relay pushes: the done record carries no saved flag.
LegacyDone == [content |-> << >>, done |-> TRUE]

\* The request arrives: the thread is loaded (404 when there is none), the
\* user message is written and committed on the request's session, and
\* generate_response starts with an empty accumulator.
LegacyStart ==
  /\ legacy.pc = "idle"
  /\ \E key \in ThreadKeys, c \in UserContents, d \in ClockGaps :
       IF ThreadFound(threads, key)
       THEN /\ threads' = InsertMessage(threads, key, nextId, "user", c,
                                        EmptyMeta, now + 1, now + 1 + d)
            /\ now' = now + 1 + d
            /\ nextId' = nextId + 1
            /\ legacy' = [legacy EXCEPT !.pc = "streaming", !.key = key,
                                        !.content = c, !.userMsgId = nextId]
       ELSE /\ d = 0
            /\ legacy' = [legacy EXCEPT !.pc = "rejected", !.key = key,
                                        !.content = c]
            /\ UNCHANGED storeVars
  /\ UNCHANGED <<relayVars, threadRows, titles, apiServed, apc, areq, astatus,
                 completion, decode, avail, pending, prompt>>

\* One more line of the backend's response: a fragment it yields is added
\* to the accumulator and pushed as a fragment record; a frame marked done
\* ends the loop; a frame that makes stream_chat raise takes
\* generate_response to its except branch.
LegacyReadLine ==
  /\ legacy.pc = "streaming"
  /\ legacy.lines < MaxLines
  /\ \E f \in Frames :
       LET r == DecodeLine(f)
           got == IF ContentGuard(r.yield)
                  THEN [legacy EXCEPT
                          !.lines = @ + 1,
                          !.full_response = Accumulate(@, r.yield),
                          !.events = Append(@, FragmentRecord(r.yield))]
                  ELSE [legacy EXCEPT !.lines = @ + 1]
       IN legacy' =
            CASE r.next = "continue" -> got
              [] r.next = "break" ->
                   [got EXCEPT !.pc = "saving", !.end = "normal"]
              [] r.next = "raise" ->
                   [got EXCEPT !.pc = "failing", !.end = "raised"]
  /\ UNCHANGED <<storeVars, relayVars, threadRows, titles, apiServed, apc,
                 areq, astatus, completion, decode, avail, pending, prompt>>

\* The transport ends without a frame marked done.
LegacyEndOfLines ==
  /\ legacy.pc = "streaming"
  /\ legacy' = [legacy EXCEPT !.pc = "saving", !.end = "normal"]
  /\ UNCHANGED <<storeVars, relayVars, threadRows, titles, apiServed, apc,
                 areq, astatus, completion, decode, avail, pending, prompt>>

\* The backend refuses the request, drops the connection or times out:
\* stream_chat raises ValueError.
LegacyTransportError ==
  /\ legacy.pc = "streaming"
  /\ legacy' = [legacy EXCEPT !.pc = "failing", !.end = "raised"]
  /\ UNCHANGED <<storeVars, relayVars, threadRows, titles, apiServed, apc,
                 areq, astatus, completion, decode, avail, pending, prompt>>

\* After the loop: the assistant message is written on a session of its
\* own, whatever the accumulator holds, and committed.  The write is not
\* guarded: an exception of the store reaches "except Exception".
LegacySave ==
  /\ legacy.pc = "saving"
  /\ \E ok \in BOOLEAN, d \in ClockGaps :
       IF ok
       THEN /\ threads' = InsertMessage(threads, legacy.key, nextId,
                                        "assistant", legacy.full_response,
                                        EmptyMeta, now + 1, now + 1 + d)
            /\ now' = now + 1 + d
            /\ nextId' = nextId + 1
            /\ legacy' = [legacy EXCEPT !.pc = "finishing",
                                        !.asstMsgId = nextId]
       ELSE /\ d = 0
            /\ legacy' = [legacy EXCEPT !.pc = "failing"]
            /\ UNCHANGED storeVars
  /\ UNCHANGED <<relayVars, threadRows, titles, apiServed, apc, areq, astatus,
                 completion, decode, avail, pending, prompt>>

\* yield f"data: {json.dumps({'content': '', 'done': True})}\n\n"
LegacyPushDone ==
  /\ legacy.pc = "finishing"
  /\ legacy' = [legacy EXCEPT !.pc = "done", !.events = Append(@, LegacyDone)]
  /\ UNCHANGED <<storeVars, relayVars, threadRows, titles, apiServed, apc,
                 areq, astatus, completion, decode, avail, pending, prompt>>

\* The except branch: the error is logged and the error record pushed;
\* nothing is written.
LegacyPushError ==
  /\ legacy.pc = "failing"
  /\ legacy' = [legacy EXCEPT
                  !.pc = "done",
                  !.events = Append(@, [error |-> "raised", done |-> TRUE])]
  /\ UNCHANGED <<storeVars, relayVars, threadRows, titles, apiServed, apc,
                 areq, astatus, completion, decode, avail, pending, prompt>>

NextLegacy ==
  \/ LegacyStart
  \/ LegacyReadLine
  \/ LegacyEndOfLines
  \/ LegacyTransportError
  \/ LegacySave
  \/ LegacyPushDone
  \/ LegacyPushError

SpecLegacy == Init /\ [][NextLegacy]_vars

(* ------------------------ vocabulary of the claims -------------------- *)

Last(s) == s[Len(s)]
Front(s) == SubSeq(s, 1, Len(s) - 1)

\* The records of evs that are fragment records, in order.
FragmentRecords(evs) == SelectSeq(evs, IsFragment)
\* The contents of the fragment records of evs, in order.
FragmentContentsOf(evs) ==
  LET fr == FragmentRecords(evs) IN [i \in 1 .. Len(fr) |-> fr[i].content]

\* The rows of the request's thread, in creation order.
ThreadMessages(t) == LoadMessages(threads, req[t].key)
\* The rows of the request's thread that were not there when it was loaded.
HistoryIds(t) == {history[t][i].id : i \in 1 .. Len(history[t])}
NewRows(t) ==
  LET ms == threads[req[t].key].messages
      old == HistoryIds(t)
  IN {ms[i] : i \in {j \in 1 .. Len(ms) : ms[j].id \notin old}}
RowsWithRole(ms, role) == {m \in ms : m.role = role}

\* The turn has run to its end and the generator is exhausted.
TurnOver(t) == pc[t] = "done"
\* The backend stream ended normally / raised.
Completed(t) == TurnOver(t) /\ streamEnd[t] = "normal"
BackendRaised(t) == TurnOver(t) /\ streamEnd[t] = "raised"

(* ------------------------------ claims -------------------------------- *)

C2_UserCommitBeforeStream ==
  \A t \in Turns :
    (opens[t] > 0 \/ received[t] # << >>
       \/ pc[t] \in {"streaming", "push", "saving", "savingPartial",
                     "sendDone", "sendError", "done"})
    => /\ userMsgId[t] # 0
       /\ \E i \in 1 .. Len(threads[req[t].key].messages) :
            LET m == threads[req[t].key].messages[i] IN
            m.id = userMsgId[t] /\ m.role = "user" /\ m.content = req[t].content

\* Witness of C2: the stream is open and a fragment has been received.
C2_Witness ==
  \E t \in Turns : pc[t] = "push" /\ opens[t] = 1 /\ Len(received[t]) = 1

\* C3: after a successful turn (the stream ended normally and the assistant
\* write was committed) the thread holds, in creation order, the messages it
\* held when the turn loaded it, then the new user message, then the new
\* assistant message, the user message created strictly earlier.
C3_SuccessfulTurn ==
  \A t \in Turns :
    (Completed(t) /\ saveResult[t] = "ok") =>
      LET ms == ThreadMessages(t)
          n == Len(history[t])
      IN /\ Len(ms) = n + 2
         /\ SubSeq(ms, 1, n) = history[t]
         /\ ms[n + 1].id = userMsgId[t] /\ ms[n + 1].role = "user"
         /\ ms[n + 1].content = req[t].content
         /\ ms[n + 2].id = asstMsgId[t] /\ ms[n + 2].role = "assistant"
         /\ ms[n + 1].created_at < ms[n + 2].created_at
         /\ Cardinality(RowsWithRole(NewRows(t), "user")) = 1
         /\ Cardinality(RowsWithRole(NewRows(t), "assistant")) = 1

\* Witness of C3: history [user:H, assistant:O], content q, fragments
\* ["4", "."] give [user:H, assistant:O, user:q, assistant:4.].
C3_Witness ==
  \E t \in Turns :
    /\ Completed(t) /\ saveResult[t] = "ok"
    /\ [i \in 1 .. Len(ThreadMessages(t)) |->
          <<ThreadMessages(t)[i].role, ThreadMessages(t)[i].content>>]
       = << <<"user", <<"H">> >>, <<"assistant", <<"O">> >>,
            <<"user", <<"q">> >>, <<"assistant", <<"4", ".">> >> >>

\* The row of the turn's assistant write: role assistant, the given
\* content and metadata.
HasAssistantRow(t, content, metadata) ==
  \E i \in 1 .. Len(ThreadMessages(t)) :
    LET m == ThreadMessages(t)[i] IN
    /\ m.id = asstMsgId[t] /\ m.role = "assistant"
    /\ m.content = content /\ m.metadata = metadata

C5_FailedBeforeFirstFragment ==
  \A t \in Turns :
    (BackendRaised(t) /\ received[t] = << >>) =>
      /\ events[t] = <<ErrorRecord(error[t])>>
      /\ IsError(events[t][1])
      /\ saveResult[t] = "none" /\ asstMsgId[t] = 0
      /\ Cardinality(NewRows(t)) = 1
      /\ \A m \in NewRows(t) :
           m.id = userMsgId[t] /\ m.role = "user" /\ m.content = req[t].content
      /\ Len(ThreadMessages(t)) = Len(history[t]) + 1

\* Witness of C5: the connection was refused on a thread with history.
C5_Witness ==
  \E t \in Turns :
    /\ BackendRaised(t) /\ received[t] = << >> /\ error[t] = "connect"
    /\ Len(history[t]) = 2 /\ Len(ThreadMessages(t)) = 3

\* C6 as stated: a turn on a thread that does not exist emits exactly one
\* terminal error record.
C6_Original ==
  \A t \in Turns :
    (pc[t] = "rejected" /\ httpStatus[t] = 404) =>
      /\ Len(events[t]) = 1
      /\ IsError(events[t][1])

\* C6, amended: a turn on a thread that does not exist is answered with
\* HTTP 404 before the event stream is created: no record at all is
\* emitted (no fragment record and no error record), no backend stream is
\* opened and the store is left as it was.
C6_ThreadNotFound ==
  /\ [][\A t \in Turns :
          (pc[t] = "idle" /\ pc'[t] # "idle"
             /\ ~ThreadFound(threads, req'[t].key)) =>
            /\ pc'[t] = "rejected" /\ httpStatus'[t] = 404
            /\ threads' = threads /\ nextId' = nextId]_vars
  /\ [](\A t \in Turns :
          pc[t] = "rejected" =>
            /\ events[t] = << >> /\ opens[t] = 0 /\ received[t] = << >>
            /\ httpStatus[t] \in {404, 500})

\* Witness of C6: the request was rejected with 404 while another thread
\* exists and holds messages.
C6_Witness ==
  \E t \in Turns :
    /\ pc[t] = "rejected" /\ httpStatus[t] = 404
    /\ ~ThreadFound(threads, req[t].key)
    /\ \E k \in ThreadKeys : threads[k] = InitThread(OtherHistory)

\* C7: when the stream ended normally and the assistant write raised, the
\* terminal record is the done record with saved = false, no error record
\* is emitted, and the records before it are the fragments received.
C7_SaveFailureNotFatal ==
  \A t \in Turns :
    (Completed(t) /\ saveResult[t] = "raised") =>
      /\ Last(events[t]) = [content |-> << >>, done |-> TRUE, saved |-> FALSE]
      /\ \A i \in 1 .. Len(events[t]) : ~IsError(events[t][i])
      /\ FragmentContentsOf(Front(events[t])) = received[t]
      /\ Len(events[t]) = Len(received[t]) + 1
      /\ error[t] = "none"

\* Witness of C7: two fragments were pushed, then the assistant write raised.
C7_Witness ==
  \E t \in Turns :
    /\ Completed(t) /\ saveResult[t] = "raised"
    /\ Len(events[t]) = 3 /\ IsDone(events[t][3])

\* C8: when the stream ended normally and the assistant write was
\* committed, the assistant row holds the concatenation of the contents of
\* the fragment records pushed, in order, and the terminal record is the
\* done record with saved = true.
C8_PersistedEqualsPushed ==
  \A t \in Turns :
    (Completed(t) /\ saveResult[t] = "ok") =>
      /\ HasAssistantRow(t, Concat(FragmentContentsOf(events[t])), << >>)
      /\ Last(events[t]) = [content |-> << >>, done |-> TRUE, saved |-> TRUE]
      /\ Len(FragmentRecords(events[t])) = Len(events[t]) - 1

\* Witness of C8: fragments "." and "4" were pushed and ".4" was persisted.
C8_Witness ==
  \E t \in Turns :
    /\ Completed(t) /\ saveResult[t] = "ok"
    /\ FragmentContentsOf(events[t]) = << <<".">>, <<"4">> >>
    /\ HasAssistantRow(t, <<".", "4">>, EmptyMeta)

\* C9: at every moment of a turn, the turn has added at most one user
\* message and at most one assistant message to its thread, and has sent at
\* most one streaming request to the backend.
C9_AtMostOnce ==
  \A t \in Turns :
    pc[t] # "idle" =>
      LET new == NewRows(t) IN
      /\ opens[t] <= 1
      /\ Cardinality(RowsWithRole(new, "user")) <= 1
      /\ Cardinality(RowsWithRole(new, "assistant")) <= 1
      /\ Cardinality(new) <= 2
      /\ \A m \in new : m.id \in {userMsgId[t], asstMsgId[t]}

\* Witness of C9: a turn that ended on the partial path after one request
\* to the backend, with both of its messages written.
C9_Witness ==
  \E t \in Turns :
    /\ BackendRaised(t) /\ opens[t] = 1 /\ Cardinality(NewRows(t)) = 2
    /\ saveResult[t] = "ok"

\* C10: the fragment records pushed are the fragments received, in order,
\* one record per fragment, except that the fragment in the loop body has
\* been received and accumulated but not yet pushed; the accumulator is the
\* concatenation of the fragments received.
C10_PushedEqualsReceived ==
  \A t \in Turns :
    LET pushed == FragmentContentsOf(events[t]) IN
    /\ full_response[t] = Concat(received[t])
    /\ Len(pushed) >= Len(events[t]) - 1
    /\ IF pc[t] = "push"
       THEN received[t] = Append(pushed, chunk[t])
       ELSE received[t] = pushed

\* Witness of C10: the second of two different fragments is in the loop
\* body, the first has been pushed.
C10_Witness ==
  \E t \in Turns :
    /\ pc[t] = "push"
    /\ received[t] = << <<"4">>, <<".">> >>
    /\ events[t] = <<FragmentRecord(<<"4">>)>>

\* The terminal records among the records of a turn.
TerminalIndexes(evs) == {i \in 1 .. Len(evs) : IsTerminal(evs[i])}

\* C11: once the backend has failed after the stream was requested, before
\* or after fragments, the caller eventually holds exactly one terminal
\* record, the error record, as its last record, whatever the outcome of
\* the attempt to persist the partial answer (committed, raised, thread
\* gone); and a turn never holds two terminal records.
C11_TerminalAfterFailure ==
  /\ \A t \in Turns :
       (streamEnd[t] = "raised" /\ opens[t] > 0)
         ~> (TurnOver(t) /\ IsError(Last(events[t]))
               /\ Cardinality(TerminalIndexes(events[t])) = 1)
  /\ [](\A t \in Turns : Cardinality(TerminalIndexes(events[t])) <= 1)

\* Witness of C11: the backend failed after one fragment, the partial write
\* raised, and the error record was delivered after the fragment record.
C11_Witness ==
  \E t \in Turns :
    /\ BackendRaised(t) /\ Len(received[t]) = 1 /\ saveResult[t] = "raised"
    /\ Len(events[t]) = 2 /\ IsError(events[t][2])
    /\ TerminalIndexes(events[t]) = {2}

\* C12: when the append of the user turn fails, because the store raises
\* or because the thread is no longer found, the request ends with an HTTP
\* error (404 for the missing thread, 500 for the store), the store is left
\* as it was, and the turn opens no backend stream and emits no record
\* before it ends.
C12_UserAppendFailure ==
  /\ [][\A t \in Turns :
          (pc[t] = "loaded" /\ pc'[t] # "loaded" /\ userMsgId'[t] = 0) =>
            /\ pc'[t] = "rejected"
            /\ httpStatus'[t] =
                 (IF ThreadFound(threads, req[t].key) THEN 500 ELSE 404)
            /\ threads' = threads /\ nextId' = nextId
            /\ opens'[t] = 0 /\ events'[t] = << >>]_vars
  /\ [][\A t \in Turns :
          pc[t] = "rejected" =>
            /\ pc'[t] \in {"rejected", "idle"}
            /\ opens'[t] = 0 /\ events'[t] = << >> /\ received'[t] = << >>]_vars

\* Witness of C12: the thread was loaded with its two messages, deleted by
\* a concurrent request, and the append ended the turn with 404.
C12_Witness ==
  \E t \in Turns :
    /\ pc[t] = "rejected" /\ httpStatus[t] = 404 /\ Len(history[t]) = 2
    /\ ~ThreadFound(threads, req[t].key)
    /\ opens[t] = 0 /\ events[t] = << >>
    /\ \E a \in Apis :
         /\ areq[a].op = "delete_thread" /\ areq[a].key = req[t].key
         /\ astatus[a] = 200

\* C13 as stated: when the backend stream ended normally without any
\* fragment, the terminal record of the turn is an error record.
C13_Original ==
  \A t \in Turns :
    (Completed(t) /\ received[t] = << >>) => IsError(Last(events[t]))

\* C14 as stated: a completion never returns when the content of the
\* backend's valid response is empty or blank, and it never returns the
\* empty text.
C14_Original ==
  completion.pc = "returned" =>
    (Strip(completion.content) # << >> /\ completion.result # << >>)

\* C15: when the backend answers the streaming request with 404, the
\* adapter raises before it reads a line or yields a fragment, and the
\* message of the error names the model and tells how to pull it; the turn
\* then consists of a single record, the error record carrying that
\* message, and no assistant write is attempted.
C15_ModelNotFound ==
  \A t \in Turns :
    error[t] = "not_found" =>
      /\ lines[t] = 0 /\ received[t] = << >> /\ full_response[t] = << >>
      /\ saveResult[t] = "none" /\ asstMsgId[t] = 0
      /\ RowsWithRole(NewRows(t), "assistant") = {}
      /\ TurnOver(t) =>
           /\ Len(events[t]) = 1 /\ IsError(events[t][1])
           /\ LET msg == events[t][1].error IN
              /\ \E i \in 1 .. Len(msg) : msg[i] = "llama2"
              /\ \E i \in 1 .. Len(msg) - 1 :
                   /\ msg[i] = "Please pull it first: ollama pull "
                   /\ msg[i + 1] = "llama2"

\* Witness of C15: the turn ended with the model-not-found record alone,
\* its thread one user message longer.
C15_Witness ==
  \E t \in Turns :
    /\ TurnOver(t) /\ error[t] = "not_found" /\ opens[t] = 1
    /\ events[t] =
         << [error |-> <<"Ollama model '", "llama2", "' not found. ",
                         "Please pull it first: ollama pull ", "llama2">>,
             done |-> TRUE] >>
    /\ Len(ThreadMessages(t)) = Len(history[t]) + 1

MaxCreatedAt(ms) ==
  IF ms = << >> THEN 0
  ELSE CHOOSE c \in {ms[i].created_at : i \in 1 .. Len(ms)} :
         \A i \in 1 .. Len(ms) : ms[i].created_at <= c

Arrives(a) ==
  /\ apiServed' = apiServed + 1
  /\ apc[a] = "idle"
  /\ \A b \in Apis : b < a => apc[b] # "idle"

\* A request to update the title of thread k is answered with 200 in this step.
TitleUpdated(k) ==
  \E a \in Apis :
    /\ Arrives(a)
    /\ areq'[a].op = "update_title" /\ areq'[a].key = k
    /\ astatus'[a] = 200

UserRow(t) == CHOOSE m \in NewRows(t) : m.id = userMsgId[t]
AssistantRow(t) == CHOOSE m \in NewRows(t) : m.id = asstMsgId[t]

\* C18 as stated: after a successful turn the updated_at of the thread
\* equals the created_at of the assistant message of the turn.
C18_Original ==
  \A t \in Turns :
    (Completed(t) /\ saveResult[t] = "ok") =>
      threads[req[t].key].updated_at = AssistantRow(t).created_at

\* C18, amended: after a successful turn with no other writer, the
\* updated_at of the thread is the clock reading the assistant write took
\* before its row got its created_at: it is later than the created_at of
\* the user message of the turn and of every older message, and not later
\* than the created_at of the assistant message, which is a second reading.
C18_UpdatedAtAfterTurn ==
  \A t \in Turns :
    (Completed(t) /\ saveResult[t] = "ok") =>
      LET u == threads[req[t].key].updated_at
          ms == threads[req[t].key].messages
      IN /\ u <= AssistantRow(t).created_at
         /\ u > UserRow(t).created_at
         /\ \A i \in 1 .. Len(ms) :
              ms[i].id # asstMsgId[t] => ms[i].created_at < u
         /\ u <= now

\* Witness of C18: a successful turn whose assistant message was created
\* one tick after the reading that became updated_at.
C18_Witness ==
  \E t \in Turns :
    /\ Completed(t) /\ saveResult[t] = "ok"
    /\ threads[req[t].key].updated_at + 1 = AssistantRow(t).created_at
    /\ UserRow(t).created_at < threads[req[t].key].updated_at

\* C19: every stored message has role user or assistant, whatever
\* sequence of create-message requests (with any role string) and
\* streaming turns (on any path) has run; a create-message request with
\* another role is answered with 400 and leaves the store as it was.
C19_RolesPersisted ==
  /\ [](\A k \in ThreadKeys :
          \A i \in 1 .. Len(threads[k].messages) :
            threads[k].messages[i].role \in {"user", "assistant"})
  /\ [][\A a \in Apis :
          (Arrives(a) /\ areq'[a].op = "create_message"
             /\ areq'[a].role \notin {"user", "assistant"}) =>
            /\ astatus'[a] = 400
            /\ threads' = threads /\ nextId' = nextId /\ now' = now]_vars

\* Witness of C19: a request to add a message with role system to a thread
\* that exists was answered with 400, after a streaming turn wrote its
\* user and assistant messages.
C19_Witness ==
  \E a \in Apis, t \in Turns :
    /\ areq[a].op = "create_message" /\ areq[a].role = "system"
    /\ astatus[a] = 400
    /\ threads[areq[a].key].exists
    /\ areq[a].key = req[t].key
    /\ Completed(t) /\ saveResult[t] = "ok"
    /\ \A i \in 1 .. Len(threads[areq[a].key].messages) :
         threads[areq[a].key].messages[i].role \in {"user", "assistant"}

\* C20: chat_threads never holds two rows for one (owner, thread id),
\* whatever the interleaving of the creation requests; a creation request
\* for a pair that has a row fails (400 at the check, 500 at the insert)
\* and leaves the store as it was, and one for a pair without a row creates
\* exactly that row, whether or not another owner holds the same thread id.
C20_UniqueThread ==
  /\ [](\A k \in ThreadKeys :
          /\ threadRows[k] <= 1
          /\ threads[k].exists <=> threadRows[k] = 1)
  /\ [][\A a \in Apis :
          (Arrives(a) /\ areq'[a].op = "create_thread"
             /\ threadRows[areq'[a].key] >= 1) =>
            /\ astatus'[a] = 400 /\ apc'[a] = "idle"
            /\ threads' = threads /\ threadRows' = threadRows
            /\ titles' = titles]_vars
  /\ [][\A a \in Apis :
          (apc[a] = "inserting" /\ apc'[a] = "idle") =>
            IF threadRows[areq[a].key] >= 1
            THEN /\ astatus'[a] = 500
                 /\ threads' = threads /\ threadRows' = threadRows
                 /\ titles' = titles
            ELSE /\ astatus'[a] = 200
                 /\ threadRows' = [threadRows EXCEPT ![areq[a].key] = 1]
                 /\ threads'[areq[a].key].exists
                 /\ \A k \in ThreadKeys \ {areq[a].key} :
                      threads'[k] = threads[k]]_vars

\* Witness of C20: two overlapping requests to create thread t1 of u1 both
\* passed the check; one created the row and the other failed at the
\* insert, while u2 holds a thread with the same id.
C20_Witness ==
  /\ threadRows[<<"u1", "t1">>] = 1 /\ threadRows[<<"u2", "t1">>] = 1
  /\ threads[<<"u1", "t1">>].exists /\ threads[<<"u2", "t1">>].exists
  /\ \A a \in Apis :
       /\ areq[a].op = "create_thread" /\ areq[a].key = <<"u1", "t1">>
       /\ apc[a] = "idle"
  /\ {astatus[a] : a \in Apis} = {200, 500}

\* A request to delete thread k is answered with 200 in this step.
ThreadDeleted(k) ==
  \E a \in Apis :
    /\ Arrives(a)
    /\ areq'[a].op = "delete_thread" /\ areq'[a].key = k
    /\ astatus'[a] = 200

\* C21: no step of an endpoint (create message, update title, create
\* thread, read) or of a streaming turn, on any path, changes a message that
\* is already stored: its id, role, content, metadata and created_at stay as
\* they were and it keeps its place before the messages written later; the
\* only step in which stored messages go away is the deletion of their
\* thread, which takes all of them.
C21_MessagesImmutable ==
  [][\A k \in ThreadKeys :
       LET old == threads[k].messages
           new == threads'[k].messages
       IN \/ /\ Len(new) >= Len(old)
             /\ \A i \in 1 .. Len(old) : new[i] = old[i]
          \/ /\ ThreadDeleted(k)
             /\ ~threads'[k].exists /\ new = << >>]_vars

\* Witness of C21: a thread that held two messages got a new title, a
\* message from the create-message endpoint and the two messages of a
\* streaming turn, and its first two messages are as they were.
C21_Witness ==
  \E k \in ThreadKeys, t \in Turns :
    /\ req[t].key = k /\ Completed(t) /\ saveResult[t] = "ok"
    /\ titles[k] = "T1"
    /\ \E a \in Apis : areq[a].op = "create_message" /\ areq[a].key = k
                        /\ astatus[a] = 200
    /\ Len(threads[k].messages) = 5
    /\ SubSeq(threads[k].messages, 1, 2) \in {OtherHistory} \cup InitHistories

\* C22: no message is ever stored for a thread that does not exist (no
\* orphan); the step that commits the deletion of a thread that exists
\* removes the thread with all of its messages, and leaves the threads,
\* messages and titles of every other (owner, thread id) pair as they were.
C22_DeleteCascades ==
  /\ [](\A k \in ThreadKeys : ~threads[k].exists => threads[k].messages = << >>)
  /\ [][\A k \in ThreadKeys :
          ThreadDeleted(k) =>
            /\ threads[k].exists
            /\ threads'[k] = NoThread /\ threadRows'[k] = 0
            /\ \A j \in ThreadKeys \ {k} :
                 /\ threads'[j] = threads[j]
                 /\ threadRows'[j] = threadRows[j]
                 /\ titles'[j] = titles[j]]_vars

\* Witness of C22: a message was added to thread t1 of u1, then thread t1
\* of u2 was deleted with its two messages; the thread of u1 holds its
\* three messages.
C22_Witness ==
  /\ \E a \in Apis : /\ areq[a].op = "delete_thread" /\ astatus[a] = 200
                     /\ areq[a].key = <<"u2", "t1">>
  /\ threads[<<"u2", "t1">>] = NoThread
  /\ threads[<<"u1", "t1">>].exists
  /\ Len(threads[<<"u1", "t1">>].messages) = 3

\* C23: a create-message request with an accepted role for an (owner,
\* thread id) pair that has no thread is answered with 404, and the step
\* leaves the store as it was: no message is added to any thread, no
\* thread's updated_at or title changes, no id is used and the clock is
\* not read.
C23_AppendNotFound ==
  [][\A a \in Apis :
       (Arrives(a) /\ areq'[a].op = "create_message"
          /\ areq'[a].role \in {"user", "assistant"}
          /\ ~threads[areq'[a].key].exists) =>
         /\ astatus'[a] = 404
         /\ threads' = threads /\ nextId' = nextId /\ now' = now
         /\ titles' = titles /\ threadRows' = threadRows]_vars

\* Witness of C23: a user message for thread t1 of u1, which does not
\* exist, was answered with 404 while thread t1 of u2 exists and holds
\* its two messages.
C23_Witness ==
  \E a \in Apis :
    /\ areq[a].op = "create_message" /\ areq[a].role = "user"
    /\ areq[a].key = <<"u1", "t1">> /\ astatus[a] = 404
    /\ threads[<<"u1", "t1">>] = NoThread
    /\ threads[<<"u2", "t1">>] = InitThread(OtherHistory)

\* The turn has started its assistant write, or has made it.
WriteStarted(t) ==
  pc[t] \in {"saving", "savingPartial"} \/ saveResult[t] # "none"

\* This step pushes a terminal record of turn t.
PushesTerminal(t) ==
  /\ Len(events'[t]) = Len(events[t]) + 1
  /\ IsTerminal(Last(events'[t]))

\* C29: the assistant write, on the completed and on the partial path, is
\* attempted only when the fragment loop has ended and every fragment
\* received has been pushed, and the attempt itself pushes nothing; once the
\* write has started no fragment record is pushed; and the terminal record
\* of a turn that received fragments is pushed only when the attempt has
\* finished, committed or failed.
C29_CommitAfterFragments ==
  /\ [][\A t \in Turns :
          (saveResult[t] = "none" /\ saveResult'[t] # "none") =>
            /\ pc[t] \in {"saving", "savingPartial"}
            /\ streamEnd[t] \in {"normal", "raised"}
            /\ FragmentContentsOf(events[t]) = received[t]
            /\ Len(events[t]) = Len(received[t])
            /\ events'[t] = events[t]
            /\ asstMsgId'[t] # 0 <=> saveResult'[t] = "ok"]_vars
  /\ [][\A t \in Turns :
          (WriteStarted(t) /\ pc'[t] # "idle") =>
            /\ FragmentRecords(events'[t]) = FragmentRecords(events[t])
            /\ received'[t] = received[t]]_vars
  /\ [][\A t \in Turns :
          (PushesTerminal(t) /\ received[t] # << >>) =>
            /\ saveResult[t] \in {"ok", "raised", "notfound"}
            /\ pc[t] \in {"sendDone", "sendError"}
            /\ threads' = threads]_vars
  /\ [](\A t \in Turns :
          asstMsgId[t] # 0 => (saveResult[t] = "ok" /\ streamEnd[t] # "none"))

\* Witness of C29: the partial answer of two fragments was committed after
\* both fragment records were pushed, and the error record is not pushed yet.
C29_Witness ==
  \E t \in Turns :
    /\ pc[t] = "sendError" /\ saveResult[t] = "ok" /\ asstMsgId[t] # 0
    /\ Len(events[t]) = 2 /\ \A i \in 1 .. 2 : IsFragment(events[t][i])
    /\ received[t] = << <<".">>, <<"4">> >>

\* C28: when stream_chat has raised, the caller tells a failure after
\* fragments from a failure before the first fragment by what it was
\* handed before the exception: every fragment decoded before the failure
\* was yielded to it, fragments are never empty, so its accumulator is
\* non-empty exactly when a fragment was delivered; a failure of the
\* request itself (no connection, an error status) comes with no fragment;
\* the relay attempts the partial write exactly in the first case, and the
\* records of the turn are the fragment records, one per fragment
\* delivered, then the error record.
C28_FailureDistinguishable ==
  \A t \in Turns :
    streamEnd[t] = "raised" =>
      /\ received[t] # << >> <=> full_response[t] # << >>
      /\ \A i \in 1 .. Len(received[t]) : received[t][i] # << >>
      /\ error[t] \in {"connect", "not_found", "api_error"} =>
           (received[t] = << >> /\ lines[t] = 0)
      /\ pc[t] = "savingPartial" => received[t] # << >>
      /\ pc[t] = "sendError" =>
           (saveResult[t] # "none" <=> received[t] # << >>)
      /\ TurnOver(t) =>
           /\ saveResult[t] # "none" <=> received[t] # << >>
           /\ Len(events[t]) = Len(received[t]) + 1
           /\ FragmentContentsOf(events[t]) = received[t]
           /\ IsError(Last(events[t]))

\* Witness of C28: the backend dropped the connection after one fragment;
\* the caller holds the fragment record before the error record and the
\* partial answer was written.
C28_Witness ==
  \E t \in Turns :
    /\ TurnOver(t) /\ streamEnd[t] = "raised" /\ error[t] = "transport"
    /\ received[t] = << <<"4">> >> /\ saveResult[t] = "ok"
    /\ events[t] = <<FragmentRecord(<<"4">>), ErrorRecord("transport")>>

\* The frames the decode is to skip: an empty line, a line that is not
\* JSON, JSON that is not an object, an object whose message is not an
\* object, and an object without message.content that is not marked done.
Malformed(f) ==
  \/ f.kind \in {"empty", "badjson", "nonobject", "badmsg"}
  \/ f.kind = "nomsg" /\ ~f.done

WithoutMalformed(fs) == SelectSeq(fs, LAMBDA f : ~Malformed(f))

\* C30 as stated: a decode that has ended did not raise, and the fragments
\* it yielded are those it yields for the body with the malformed frames
\* removed.
C30_Original ==
  decode.pc = "ended" =>
    /\ decode.end # "raised"
    /\ decode.fragments = StreamChat(WithoutMalformed(decode.frames)).fragments

\* A body the backend sends for a text it generated: content frames only,
\* the last one, and no other, marked done.
CompleteStream(fs) ==
  /\ fs # << >>
  /\ \A i \in 1 .. Len(fs) : fs[i].kind = "msg" /\ (fs[i].done <=> i = Len(fs))

\* The text the backend generated: the contents of the frames in order; a
\* request with stream = False gets it as the message.content of one
\* response.
BackendOutput(fs) == Concat([i \in 1 .. Len(fs) |-> fs[i].content])

\* C25 as stated: the fragments stream_chat yields for a generated text,
\* concatenated in order, are the text chat_completion returns for it.
C25_Original ==
  (decode.pc = "ended" /\ CompleteStream(decode.frames)) =>
    Concat(decode.fragments) = Strip(BackendOutput(decode.frames))

\* The registry answered 200 with a list of objects one of which names m.
ListsModel(reply, m) ==
  /\ reply.kind = "models"
  /\ \A i \in 1 .. Len(reply.entries) : reply.entries[i].kind # "nonobject"
  /\ \E i \in 1 .. Len(reply.entries) :
       reply.entries[i].kind = "named" /\ reply.entries[i].name = m

\* C27: a call of check_model_available never ends with an exception; it
\* returns True or False; for a provider other than Ollama it returns True
\* whatever the registry would answer; for Ollama it returns False when the
\* query fails (no connection, a status other than 200, a body that is not
\* JSON or not of the expected shape), and True only when the registry
\* answered 200 with a list that names the model asked for (the default
\* model when none is given).
C27_CheckNeverRaises ==
  /\ avail.pc # "raised"
  /\ avail.pc = "returned" =>
       /\ avail.result \in {"True", "False"}
       /\ avail.provider # "ollama" => avail.result = "True"
       /\ avail.provider = "ollama" =>
            /\ avail.reply.kind \in {"network", "status", "notjson", "nonobject",
                                     "nomodels", "badmodels"}
                 => avail.result = "False"
            /\ avail.result = "True" =>
                 ListsModel(avail.reply,
                            IF avail.model = "none" THEN "llama2" ELSE avail.model)

\* Witness of C27: the registry answered 200 with a list that names the
\* default model next to a value that is not an object; the call for the
\* default model returned False.
C27_Witness ==
  /\ avail.pc = "returned" /\ avail.provider = "ollama" /\ avail.model = "none"
  /\ avail.reply = [kind |-> "models",
                    entries |-> <<[kind |-> "named", name |-> "llama2"],
                                  [kind |-> "nonobject", name |-> ""]>>]
  /\ avail.result = "False"

\* This step is the commit of the create-message request of slot a.
Commits(a) ==
  apc[a] = "flushed" /\ apc'[a] = "idle" /\ astatus'[a] = 200

\* C24: the committed store changes only in the step that commits a
\* create-message request, and that step makes the new row and the new
\* updated_at of its thread visible together and touches nothing else; no
\* step before the commit shows either of the two writes; and a request
\* that fails after its statements were sent, or at its commit, ends with
\* the committed store as it was.
C24_AppendAtomic ==
  /\ [][threads' # threads =>
          \E a \in Apis :
            LET k == areq[a].key IN
            /\ Commits(a)
            /\ pending[a].row # << >>
            /\ threads'[k].messages = Append(threads[k].messages, pending[a].row[1])
            /\ threads'[k].updated_at = pending[a].updated_at
            /\ \A j \in ThreadKeys \ {k} : threads'[j] = threads[j]]_vars
  /\ [][\A k \in ThreadKeys :
          (Len(threads'[k].messages) # Len(threads[k].messages))
            <=> (threads'[k].updated_at # threads[k].updated_at)]_vars
  /\ [][\A a \in Apis :
          (apc[a] \in {"flushing", "flushed"} /\ ~Commits(a)
             /\ <<apc'[a], pending'[a]>> # <<apc[a], pending[a]>>) =>
            threads' = threads]_vars
  /\ [][\A a \in Apis :
          (apc[a] \in {"flushing", "flushed"} /\ astatus'[a] = 500) =>
            /\ threads' = threads
            /\ pending'[a] = [updated_at |-> 0, todo |-> {}, row |-> << >>]]_vars

\* Witness of C24: two requests for one thread sent both of their
\* statements; one failed at its commit and the other committed: the thread
\* holds one more row, the one of the request that committed.
C24_Witness ==
  \E a, b \in Apis, k \in ThreadKeys :
    /\ areq[a].key = k /\ areq[b].key = k
    /\ areq[a].op = "create_message" /\ areq[b].op = "create_message"
    /\ astatus[a] = 500 /\ astatus[b] = 200
    /\ apc[a] = "idle" /\ apc[b] = "idle"
    /\ nextId = 7
    /\ Len(threads[k].messages) = 3
    /\ threads[k].updated_at > threads[k].messages[2].created_at

\* The state of turn u that lives in the scope of its call.
Locals(u) ==
  <<pc[u], req[u], history[u], llmMessages[u], full_response[u],
    assistant_message_saved[u], events[u], httpStatus[u], lines[u],
    received[u], frameDone[u], streamEnd[u], opens[u], userMsgId[u],
    asstMsgId[u], saveResult[u], chunk[u], error[u], sessions[u]>>

\* This step is a step of turn t.
StepOf(t) == pc'[t] # pc[t] \/ lines'[t] # lines[t]

\* The (role, content) pairs of the rows ms.
RolesAndContents(ms) == [i \in 1 .. Len(ms) |-> <<ms[i].role, ms[i].content>>]

\* C26: with turns on different threads interleaved in every way, the
\* accumulator of a turn is the concatenation of the fragments of its own
\* stream and its fragment records are these fragments; the messages a turn
\* wrote are in its own thread and in no other, the assistant message with
\* the content of its own stream; a step of one turn, a failure of its
\* backend or of its store write included, changes nothing in the scope of
\* another turn and no thread but its own; and when a turn is over, its
\* records and the messages of its thread are those its own request, its
\* own stream and its own store outcome determine.
C26_TurnsIndependent ==
  /\ [](\A t \in ConcurrentTurns :
          /\ full_response[t] = Concat(received[t])
          /\ LET pushed == FragmentContentsOf(events[t]) IN
             IF pc[t] = "push" THEN received[t] = Append(pushed, chunk[t])
                               ELSE received[t] = pushed)
  /\ [](\A t \in ConcurrentTurns :
          pc[t] # "idle" =>
            \A k \in ThreadKeys : \A i \in 1 .. Len(threads[k].messages) :
              LET m == threads[k].messages[i] IN
              /\ m.id = userMsgId[t] =>
                   (k = req[t].key /\ m.role = "user" /\ m.content = req[t].content)
              /\ m.id = asstMsgId[t] =>
                   (k = req[t].key /\ m.role = "assistant"
                      /\ m.content = Concat(received[t])))
  /\ [][\A t \in ConcurrentTurns :
          StepOf(t) =>
            /\ \A u \in ConcurrentTurns \ {t} : Locals(u)' = Locals(u)
            /\ \A k \in ThreadKeys \ {req'[t].key} : threads'[k] = threads[k]]_vars
  /\ [](\A t \in ConcurrentTurns :
          TurnOver(t) =>
            /\ events[t] =
                 [i \in 1 .. Len(received[t]) |-> FragmentRecord(received[t][i])]
                 \o << IF streamEnd[t] = "normal"
                       THEN DoneRecord(saveResult[t] = "ok")
                       ELSE ErrorRecord(error[t]) >>
            /\ RolesAndContents(threads[req[t].key].messages) =
                 RolesAndContents(history[t])
                 \o << <<"user", req[t].content>> >>
                 \o (IF saveResult[t] = "ok"
                     THEN << <<"assistant", Concat(received[t])>> >>
                     ELSE << >>))

\* Witness of C26: two turns on different threads ran interleaved (the
\* second wrote its user message between the two writes of the first);
\* one completed with fragments "4" and "." and saved "4.", the other lost
\* its backend after fragment "." and its partial write raised.
C26_Witness ==
  \E a, b \in ConcurrentTurns :
    /\ a # b /\ req[a].key # req[b].key
    /\ Completed(a) /\ saveResult[a] = "ok"
    /\ received[a] = << <<"4">>, <<".">> >>
    /\ BackendRaised(b) /\ saveResult[b] = "raised"
    /\ received[b] = << <<".">> >>
    /\ userMsgId[a] < userMsgId[b] /\ userMsgId[b] < asstMsgId[a]
    /\ Len(threads[req[a].key].messages) = 4
    /\ Len(threads[req[b].key].messages) = 3

\* The non-empty contents of the object frames among the first n lines of
\* the body fs, in order.
ContentsUpTo(fs, n) ==
  LET carrying == SelectSeq(SubSeq(fs, 1, n),
                    LAMBDA f : f.kind = "msg" /\ f.content # << >>)
  IN [i \in 1 .. Len(carrying) |-> carrying[i].content]

\* No line among the first n of fs makes the decode raise.
NoneRaises(fs, n) ==
  \A j \in 1 .. n : fs[j].kind \notin {"nonobject", "badmsg"}

\* C31: a frame marked final (done = true) terminates the fragment
\* sequence even if lines follow it: once the decode has read a final
\* frame it has ended normally at that frame, no line after it is read,
\* and the fragments are the non-empty contents up to and including the
\* final frame's own.
C31_FinalFrameTerminates ==
  \A i \in 1 .. Len(decode.frames) :
    (decode.frames[i].done /\ decode.pos >= i
       /\ NoneRaises(decode.frames, i)) =>
      /\ decode.pc = "ended" /\ decode.end = "normal"
      /\ decode.pos = i
      /\ decode.fragments = ContentsUpTo(decode.frames, i)
      /\ decode.frames[i].content # << >> =>
           Last(decode.fragments) = decode.frames[i].content

\* A final frame with content, followed by a line that carries content:
\* the decode ended at the final frame with its content as only fragment.
C31_Witness ==
  /\ decode.pc = "ended" /\ decode.end = "normal"
  /\ Len(decode.frames) = 2 /\ decode.pos = 1
  /\ decode.frames[1].done /\ decode.frames[1].content = <<"a">>
  /\ decode.frames[2].kind = "msg" /\ decode.frames[2].content = <<"a">>
  /\ decode.fragments = << <<"a">> >>

\* C32: the turn sequence sent to the backend is the thread's history as
\* loaded at the start of the turn, in creation order and with each
\* message's role and content unchanged, followed by one entry for the new
\* user turn; the stored thread then holds one row more than was loaded
\* (the user row) and the sequence has one entry per stored row, so the
\* new user turn is there once.  The sequence is not touched while the
\* response streams.
C32_TurnSequence ==
  [][\A t \in Turns :
       /\ (pc[t] = "loaded" /\ pc'[t] = "responding") =>
            LET n == Len(history[t])
                sent == llmMessages'[t]
                stored == LoadMessages(threads', req[t].key)
            IN /\ history[t] = LoadMessages(threads, req[t].key)
               /\ \A i \in 1 .. n - 1 :
                    history[t][i].created_at <= history[t][i + 1].created_at
               /\ Len(sent) = n + 1
               /\ \A i \in 1 .. n :
                    sent[i] = [role |-> history[t][i].role,
                               content |-> history[t][i].content]
               /\ sent[n + 1] = [role |-> "user", content |-> req[t].content]
               /\ Len(stored) = n + 1
               /\ stored[n + 1].id = userMsgId'[t]
               /\ \A i \in 1 .. n + 1 :
                    /\ sent[i].role = stored[i].role
                    /\ sent[i].content = stored[i].content
       /\ pc[t] \in {"responding", "streaming"} =>
            llmMessages'[t] = llmMessages[t]
    ]_vars

\* A turn on a thread that held an exchange is streaming: the sequence
\* sent is that exchange and the new user turn.
C32_Witness ==
  \E t \in Turns :
    /\ pc[t] = "streaming"
    /\ Len(history[t]) = 2
    /\ Len(llmMessages[t]) = 3
    /\ llmMessages[t][1].role = "user"
    /\ llmMessages[t][2].role = "assistant"
    /\ llmMessages[t][3] = [role |-> "user", content |-> req[t].content]

\* The prompt the claim describes for the list ms when every turn's role is
\* one of system, user, assistant: one labelled segment per turn, in the
\* order of the turns, joined by blank lines.
RECURSIVE LabelledInOrder(_)
LabelledInOrder(ms) ==
  IF ms = << >> THEN << >>
  ELSE Label(RoleOf(Head(ms))) \o Head(ms).content
       \o (IF Len(ms) > 1 THEN <<"\n", "\n">> ELSE << >>)
       \o LabelledInOrder(Tail(ms))

\* C33 as stated: every turn of the list contributes exactly one segment,
\* labelled with one of the three roles, and the segments are in the order
\* of the turns.
C33_Original ==
  prompt.pc = "built" =>
    /\ Len(prompt.parts) = Len(prompt.messages)
    /\ \A i \in 1 .. Len(prompt.messages) :
         \E r \in {"system", "user", "assistant"} :
           prompt.parts[i] = Label(r) \o prompt.messages[i].content

\* The same for lists whose turns all carry one of the three roles or
\* none: the prompt is the labelled turns in order, blank lines between.
FlattenedKnownRoles ==
  (prompt.pc = "built"
     /\ \A i \in 1 .. Len(prompt.messages) :
          RoleOf(prompt.messages[i]) \in {"system", "user", "assistant"}) =>
    /\ Len(prompt.parts) = Len(prompt.messages)
    /\ \A i \in 1 .. Len(prompt.messages) :
         prompt.parts[i] = Label(RoleOf(prompt.messages[i]))
                             \o prompt.messages[i].content
    /\ prompt.text = LabelledInOrder(prompt.messages)

\* C34 as stated: in the relay of backend/main.py, when the backend has
\* failed after at least one fragment and the turn is over, the thread
\* holds an assistant message with the concatenated fragments as content
\* and metadata that marks it as interrupted.
C34_Original ==
  (legacy.pc = "done" /\ legacy.end = "raised"
     /\ legacy.full_response # << >>) =>
    \E i \in 1 .. Len(threads[legacy.key].messages) :
      LET m == threads[legacy.key].messages[i]
      IN /\ m.role = "assistant"
         /\ m.id > legacy.userMsgId
         /\ m.content = legacy.full_response
         /\ m.metadata = InterruptedMeta

\* C35: the saved flag is accurate.  The assistant write of the completed
\* path sets the flag exactly when it commits a new assistant row of the
\* turn's thread whose content is the whole accumulator (the fragments
\* pushed, concatenated); when it raises or finds no thread the flag stays
\* false and the store is as it was.  When nothing was accumulated no write
\* is made and the flag stays false.  The done record carries the flag as
\* the write left it, and the turn writes nothing between the two.
C35_SavedFlagAccurate ==
  [][\A t \in Turns :
       /\ (pc[t] = "saving" /\ pc'[t] = "sendDone") =>
            IF assistant_message_saved'[t]
            THEN LET before == threads[req[t].key].messages
                     after == threads'[req[t].key].messages
                 IN /\ threads[req[t].key].exists
                    /\ saveResult'[t] = "ok"
                    /\ \A i \in 1 .. Len(before) : before[i].id # asstMsgId'[t]
                    /\ \E i \in 1 .. Len(after) :
                         /\ after[i].id = asstMsgId'[t]
                         /\ after[i].role = "assistant"
                         /\ after[i].content = full_response[t]
                         /\ after[i].content =
                              Concat(FragmentContentsOf(events[t]))
            ELSE /\ threads' = threads
                 /\ asstMsgId'[t] = 0
                 /\ saveResult'[t] \in {"raised", "notfound"}
                 /\ saveResult'[t] = "notfound" <=> ~threads[req[t].key].exists
       /\ (pc[t] \in {"streaming", "push"} /\ pc'[t] = "sendDone") =>
            /\ full_response[t] = << >>
            /\ ~assistant_message_saved'[t]
            /\ asstMsgId'[t] = 0
            /\ threads' = threads
       /\ (pc[t] = "sendDone" /\ pc'[t] = "done") =>
            /\ events'[t] =
                 Append(events[t], DoneRecord(assistant_message_saved[t]))
            /\ assistant_message_saved[t] <=> saveResult[t] = "ok"
            /\ assistant_message_saved[t] <=> asstMsgId[t] # 0
            /\ threads' = threads
    ]_vars

\* The thread was deleted while the response streamed: fragments were
\* pushed, the write found no thread, and the done record says saved=false.
C35_Witness ==
  \E t \in Turns :
    /\ pc[t] = "done"
    /\ full_response[t] # << >>
    /\ saveResult[t] = "notfound"
    /\ Last(events[t]) = DoneRecord(FALSE)
    /\ ~threads[req[t].key].exists

\* The thread of turn t was deleted after the turn had committed its user
\* message: the row is no longer in the store.
DeletedWhileStreaming(t) ==
  /\ userMsgId[t] # 0
  /\ \A i \in 1 .. Len(threads[req[t].key].messages) :
       threads[req[t].key].messages[i].id # userMsgId[t]

\* What the claim says of a turn whose thread was deleted under it: one
\* terminal record, the last; no assistant row written; on the completed
\* path the done record with saved=false; no message under the thread's
\* key.
EndsWithoutWrite(t) ==
  /\ TerminalIndexes(events[t]) = {Len(events[t])}
  /\ asstMsgId[t] = 0
  /\ saveResult[t] \in {"none", "notfound"}
  /\ Completed(t) => Last(events[t]) = DoneRecord(FALSE)
  /\ threads[req[t].key].messages = << >>

\* C36 as stated: when the thread is deleted by a concurrent request while
\* the turn streams, the turn ends with exactly one terminal record, the
\* assistant write finds no thread and inserts nothing, and afterwards no
\* message of the thread exists.
C36_Original ==
  \A t \in Turns :
    (TurnOver(t) /\ DeletedWhileStreaming(t)) => EndsWithoutWrite(t)

\* The same when no thread with the identifier exists for the owner at the
\* end of the turn (the thread was not created again meanwhile).
DeletedAndNotRecreated ==
  \A t \in Turns :
    (TurnOver(t) /\ DeletedWhileStreaming(t) /\ ~threads[req[t].key].exists)
      => EndsWithoutWrite(t)

\* Both turns are over, on one thread, with their backend streams complete
\* and their assistant writes committed.
BothCompletedAndSaved ==
  /\ \A t \in ConcurrentTurns : Completed(t) /\ saveResult[t] = "ok"
  /\ \A t, u \in ConcurrentTurns : req[t].key = req[u].key

\* C37: two concurrent turns on the same thread, both complete and saved:
\* under every interleaving the thread holds, beside the rows both turns
\* loaded, exactly four rows (the two user rows and the two assistant
\* rows), in creation order; each turn's assistant row is created after
\* that turn's user row and its content is the concatenation of that
\* turn's own fragments.
C37_SameThreadNoLostWrite ==
  BothCompletedAndSaved =>
    LET ms == threads[req[1].key].messages
        loaded == {id \in HistoryIds(1) : \A t \in ConcurrentTurns : id \in HistoryIds(t)}
        written == {i \in 1 .. Len(ms) : ms[i].id \notin loaded}
        RowOf(id) == CHOOSE i \in 1 .. Len(ms) : ms[i].id = id
    IN /\ Cardinality(written) = 2 * Cardinality(ConcurrentTurns)
       /\ \A i, j \in 1 .. Len(ms) : i < j => ms[i].created_at <= ms[j].created_at
       /\ \A i, j \in 1 .. Len(ms) : i # j => ms[i].id # ms[j].id
       /\ \A t \in ConcurrentTurns :
            /\ \E i \in written : ms[i].id = userMsgId[t]
            /\ \E i \in written : ms[i].id = asstMsgId[t]
            /\ ms[RowOf(userMsgId[t])].role = "user"
            /\ ms[RowOf(userMsgId[t])].content = req[t].content
            /\ ms[RowOf(asstMsgId[t])].role = "assistant"
            /\ ms[RowOf(asstMsgId[t])].content =
                 Concat(FragmentContentsOf(events[t]))
            /\ ms[RowOf(userMsgId[t])].created_at
                 < ms[RowOf(asstMsgId[t])].created_at
            /\ RowOf(userMsgId[t]) < RowOf(asstMsgId[t])
       /\ \A t, u \in ConcurrentTurns :
            t # u => /\ userMsgId[t] # userMsgId[u]
                     /\ asstMsgId[t] # asstMsgId[u]
                     /\ userMsgId[t] # asstMsgId[u]

\* Two turns on one thread ran interleaved: both user rows were written
\* before either assistant row, and the two answers differ.
C37_Witness ==
  /\ BothCompletedAndSaved
  /\ userMsgId[1] < asstMsgId[2]
  /\ userMsgId[2] < asstMsgId[1]
  /\ full_response[1] # full_response[2]
  /\ Len(threads[req[1].key].messages) = 6

\* C38: when the caller disconnects while the relay waits for a fragment or
\* pushes one, the generator ends there: the step pulls no line, pushes no
\* record and writes nothing, and afterwards the turn reads no further
\* line, holds no terminal record, has written no assistant message, and
\* the user message committed before streaming is still in the store.
C38_DisconnectAbandons ==
  /\ [][\A t \in Turns :
          /\ (error[t] # "cancelled" /\ error'[t] = "cancelled") =>
               /\ pc[t] \in {"streaming", "push"}
               /\ pc'[t] = "closed"
               /\ lines'[t] = lines[t]
               /\ events'[t] = events[t]
               /\ threads' = threads
          /\ error[t] = "cancelled" =>
               /\ pc'[t] = "closed"
               /\ lines'[t] = lines[t]
               /\ events'[t] = events[t]
               /\ threads' = threads]_vars
  /\ [](\A t \in Turns :
          error[t] = "cancelled" =>
            /\ pc[t] = "closed"
            /\ TerminalIndexes(events[t]) = {}
            /\ asstMsgId[t] = 0 /\ saveResult[t] = "none"
            /\ RowsWithRole(NewRows(t), "assistant") = {}
            /\ \E i \in 1 .. Len(threads[req[t].key].messages) :
                 LET m == threads[req[t].key].messages[i]
                 IN /\ m.id = userMsgId[t]
                    /\ m.role = "user"
                    /\ m.content = req[t].content)

\* The caller went away while the second fragment was being pushed: one
\* record was delivered, two fragments are in the accumulator, and the
\* thread holds the user message as its last row.
C38_Witness ==
  \E t \in Turns :
    /\ pc[t] = "closed"
    /\ Len(events[t]) = 1
    /\ Len(received[t]) = 2
    /\ full_response[t] # << >>
    /\ Last(threads[req[t].key].messages).id = userMsgId[t]

\* C39: every fragment the adapter yields, and so every fragment record
\* pushed, has non-empty content; outside the loop body (between adding a
\* fragment to the accumulator and pushing it) the accumulator is non-empty
\* exactly when a fragment record has been pushed, and when the backend
\* raises the relay takes the partial path exactly when a fragment record
\* has been pushed.
C39_FragmentsNonEmpty ==
  /\ [](\A t \in Turns :
          /\ \A i \in 1 .. Len(received[t]) : received[t][i] # << >>
          /\ \A i \in 1 .. Len(events[t]) :
               IsFragment(events[t][i]) => events[t][i].content # << >>
          /\ pc[t] = "push" => chunk[t] # << >>
          /\ pc[t] # "push" =>
               (full_response[t] # << >>
                  <=> \E i \in 1 .. Len(events[t]) : IsFragment(events[t][i])))
  /\ [][\A t \in Turns :
          (streamEnd[t] = "none" /\ streamEnd'[t] = "raised") =>
            LET pushed == \E i \in 1 .. Len(events[t]) : IsFragment(events[t][i])
            IN /\ pushed <=> full_response[t] # << >>
               /\ pushed <=> pc'[t] = "savingPartial"
               /\ ~pushed <=> pc'[t] = "sendError"]_vars

\* A frame with empty content and a frame without content were read and
\* yielded nothing; then the backend failed: no record was pushed, the
\* accumulator is empty and the relay took the failed path.
C39_Witness ==
  \E t \in Turns :
    /\ pc[t] = "sendError"
    /\ lines[t] = 2
    /\ received[t] = << >>
    /\ full_response[t] = << >>
    /\ events[t] = << >>

=============================================================================
